---- MODULE Spec2Model ----
(***************************************************************************)
(* Model of the WooCommerce <-> ERPNext integration: the correlation       *)
(* store (app/mapping/mapping_store.py), and the pass entry points that    *)
(* read and write it (app/sync/sync_core.py, app/admin_routes.py).         *)
(*                                                                         *)
(* Three specifications share the variables:                               *)
(*   SpecMigrate  migrate_if_needed applied to bounded legacy documents    *)
(*   SpecStore    save_mapping / load_mapping_raw / _atomic_write on the   *)
(*                mapping file, step by step, with failures and kills      *)
(*   SpecPass     concurrent invocations of the pass entry points          *)
(***************************************************************************)
EXTENDS Integers, Sequences, FiniteSets, TLC

VARIABLES
    now,            \* the clock now_iso() reads
    migs,           \* SpecMigrate: <<input, migrate(input), migrate(migrate(input)), ..>>
    mapping_file,   \* content of MAPPING_JSON_FILE (Absent or a text)
    backup_file,    \* content of MAPPING_JSON_FILE + BACKUP_SUFFIX
    tmp_file,       \* content of the mkstemp file of _atomic_write
    pc,             \* SpecStore: position of the (sequential) store caller
    op,             \* SpecStore: the call in progress and its locals
    ret,            \* SpecStore: outcome of the last finished call
    sync_lock,      \* SpecPass: asyncio.Lock of sync_core (TRUE = locked)
    task,           \* SpecPass: per invocation: entry point, position, result
    erp,            \* SpecSync, SpecImages: the ERP: item codes, prices, images
    wc,             \* SpecSync, SpecImages: the storefront's products, in listing order
    next_id,        \* SpecSync, SpecImages: the id the storefront gives out next
    images_map,     \* SpecImages: the caller's "images" dict
    seen,           \* SpecSync: item codes of every ERP snapshot a pass has read
    last            \* SpecSync, SpecImages: what the last pass or call did

vars == <<now, migs, mapping_file, backup_file, tmp_file, pc, op, ret, sync_lock, task,
         erp, wc, next_id, images_map, seen, last>>
migrateVars == <<migs>>
storeVars == <<mapping_file, backup_file, tmp_file, pc, op, ret>>
passVars == <<sync_lock, task>>
syncVars == <<erp, wc, next_id, images_map, seen, last>>

(***************************************************************************)
(* Bounds of the model                                                     *)
(***************************************************************************)
MaxRows == 1
MaxMigrations == 2
MaxClock == 1
MaxTasks == 2
MaxItems == 1
MaxImages == 2
MaxMediaId == 11
MaxProducts == 2

(***************************************************************************)
(* Program constants                                                       *)
(***************************************************************************)
SCHEMA_VERSION == 3
SAVE_RETRIES == 5

(***************************************************************************)
(* Python / JSON values.  A value is a tagged record so that values of     *)
(* different types compare unequal instead of being incomparable.          *)
(* A dict is a function from its (string) keys.                            *)
(***************************************************************************)
PyNone == [t |-> "null"]
PyInt(n) == [t |-> "num", v |-> n]
PyStr(s) == [t |-> "str", v |-> s]
PyList(q) == [t |-> "arr", v |-> q]
PyDict(f) == [t |-> "obj", v |-> f]

EmptyDict == PyDict(<< >>)
EmptyList == PyList(<< >>)

\* key in d  (d a dict)
HasKey(d, key) == d.t = "obj" /\ key \in DOMAIN d.v

\* d[key] = val on a copy of d
SetKey(d, key, val) == PyDict((key :> val) @@ d.v)

\* d.setdefault(key, val)
SetDefault(d, key, val) == IF HasKey(d, key) THEN d ELSE SetKey(d, key, val)

\* now_iso(): the UTC clock, to the second, as a string
now_iso(clock) == PyStr(ToString(clock))

(***************************************************************************)
(* migrate_if_needed                                                       *)
(***************************************************************************)
\* "schema_version" not in data: for a list a membership test on its
\* elements, for a dict a test on its keys
NoSchemaVersion(data) ==
    IF data.t = "arr"
    THEN \A i \in DOMAIN data.v : data.v[i] # PyStr("schema_version")
    ELSE ~HasKey(data, "schema_version")

\* data.get("schema_version", 0)
GetSchemaVersion(data) ==
    IF HasKey(data, "schema_version") THEN data.v["schema_version"].v ELSE 0

\* lines 94-101: the oldest flat-list format is wrapped
WrapFlatList(data, clock) ==
    PyDict([schema_version |-> PyInt(2),
            generated_at   |-> now_iso(clock),
            auto           |-> IF data.t = "arr" THEN data ELSE EmptyList,
            overrides      |-> EmptyList])

\* lines 103-105 without the version test: a migration that always stamps
StampAlways(data) ==
    SetKey(SetDefault(data, "images", EmptyDict), "schema_version", PyInt(SCHEMA_VERSION))

\* lines 103-105: older documents get the image map and the current version
StampCurrent(data) ==
    IF GetSchemaVersion(data) < SCHEMA_VERSION
    THEN SetKey(SetDefault(data, "images", EmptyDict), "schema_version", PyInt(SCHEMA_VERSION))
    ELSE data

\* migrate_if_needed as it was before the image map: wrap only
MigrateWrapOnly(data, clock) ==
    IF NoSchemaVersion(data) THEN WrapFlatList(data, clock) ELSE data

migrate_if_needed(data, clock) ==
    StampCurrent(IF NoSchemaVersion(data) THEN WrapFlatList(data, clock) ELSE data)

(***************************************************************************)
(* Documents the store holds: rows, overrides, image records               *)
(***************************************************************************)
Codes == {"A", "B"}
Absent == [t |-> "absent"]

\* generate_auto_mapping's row for an item; wc_id = 0 when no product has the SKU
AutoRow(code, wc_id) ==
    PyDict([erp_item_code        |-> PyStr(code),
            wc_product_id        |-> IF wc_id = 0 THEN PyNone ELSE PyInt(wc_id),
            wc_sku               |-> IF wc_id = 0 THEN PyNone ELSE PyStr(code),
            status               |-> PyStr(IF wc_id = 0 THEN "missing_wc" ELSE "matched"),
            last_synced          |-> PyNone,
            last_price           |-> PyNone,
            last_image_media_id  |-> PyNone,
            last_image_filename  |-> PyNone,
            last_image_size      |-> PyNone])

\* the row apply_overrides appends for an unknown code; also the pre-schema row
BareRow(code) == PyDict([erp_item_code |-> PyStr(code)])

OverrideRow(code, forced) ==
    PyDict([erp_item_code |-> PyStr(code), forced_wc_product_id |-> PyInt(forced)])

\* upsert_image_mapping's record
ImageRecord(url, media_id, position, clock) ==
    PyDict([erp_url      |-> PyStr(url),
            sha256       |-> PyStr("h"),
            woo_media_id |-> IF media_id = 0 THEN PyNone ELSE PyInt(media_id),
            filename     |-> PyStr("f"),
            position     |-> PyInt(position),
            updated_at   |-> now_iso(clock)])

\* the sequences over S of length at most n
SeqUpTo(S, n) == UNION {[1..k -> S] : k \in 0..n}

RowLists == SeqUpTo({AutoRow(c, w) : c \in Codes, w \in {0, 5}} \cup {BareRow(c) : c \in Codes}, MaxRows)
OverrideLists == SeqUpTo({OverrideRow(c, 7) : c \in Codes}, 1)
ImageMaps == {<< >>, [A |-> PyList(<<ImageRecord("u", 9, 0, 0)>>)]}

\* a payload that carries the rows and overrides only
SavePayloadNoImages(auto_rows, overrides, images, clock) ==
    PyDict([schema_version |-> PyInt(SCHEMA_VERSION),
            generated_at   |-> now_iso(clock),
            auto           |-> PyList(auto_rows),
            overrides      |-> PyList(overrides)])

\* the payload save_mapping builds (lines 146-152)
SavePayload(auto_rows, overrides, images, clock) ==
    PyDict([schema_version |-> PyInt(SCHEMA_VERSION),
            generated_at   |-> now_iso(clock),
            auto           |-> PyList(auto_rows),
            overrides      |-> PyList(overrides),
            images         |-> PyDict(images)])

\* documents of any schema generation: a bare list of rows, or an object with
\* any subset of the keys and any version stamp (0 = no stamp)
LegacyDocs ==
    {PyList(r) : r \in RowLists} \cup
    {PyDict([k \in ks \cup (IF ver = 0 THEN {} ELSE {"schema_version"}) |->
                CASE k = "schema_version" -> PyInt(ver)
                  [] k = "auto"           -> PyList(r)
                  [] k = "overrides"      -> PyList(o)
                  [] k = "images"         -> PyDict(im)]) :
        ks \in SUBSET {"auto", "overrides", "images"}, ver \in 0..(SCHEMA_VERSION + 1),
        r \in RowLists, o \in OverrideLists, im \in ImageMaps}

(***************************************************************************)
(* JSON text.  A text is a sequence of lexical units: the six punctuation  *)
(* marks, a run of whitespace "ws", the literals (null, a number, a string)*)
(* and three kinds of damage: a NUL byte, a byte-order mark, and a junk    *)
(* byte that begins no JSON value.                                         *)
(***************************************************************************)
Unit(kind) == [k |-> kind]
Lit(val) == IF val.t = "null" THEN [k |-> "null"] ELSE [k |-> val.t, v |-> val.v]

\* insertion order of the keys of the dicts the program builds
KeyOrder ==
    <<"schema_version", "generated_at", "auto", "overrides", "images",
      "erp_item_code", "forced_wc_product_id", "wc_product_id", "wc_sku", "status",
      "last_synced", "last_price", "last_image_media_id", "last_image_filename",
      "last_image_size", "erp_url", "sha256", "woo_media_id", "filename",
      "position", "updated_at", "A", "B">>

KeysInOrder(f) == SelectSeq(KeyOrder, LAMBDA key : key \in DOMAIN f)

\* json.dump(payload, indent=2): items on their own lines (", ws"), ": " after
\* a key, empty containers written "[]" and "{}"
RECURSIVE json_dump(_)
json_dump(val) ==
    LET RECURSIVE Items(_, _)
        Items(q, i) ==
            IF i > Len(q) THEN << >>
            ELSE (IF i > 1 THEN <<Unit(","), Unit("ws")>> ELSE << >>)
                 \o json_dump(q[i]) \o Items(q, i + 1)
        RECURSIVE Members(_, _, _)
        Members(f, ks, i) ==
            IF i > Len(ks) THEN << >>
            ELSE (IF i > 1 THEN <<Unit(","), Unit("ws")>> ELSE << >>)
                 \o <<Lit(PyStr(ks[i])), Unit(":"), Unit("ws")>>
                 \o json_dump(f[ks[i]]) \o Members(f, ks, i + 1)
    IN  CASE val.t = "arr" ->
                IF Len(val.v) = 0 THEN <<Unit("["), Unit("]")>>
                ELSE <<Unit("["), Unit("ws")>> \o Items(val.v, 1) \o <<Unit("ws"), Unit("]")>>
          [] val.t = "obj" ->
                IF DOMAIN val.v = {} THEN <<Unit("{"), Unit("}")>>
                ELSE <<Unit("{"), Unit("ws")>> \o Members(val.v, KeysInOrder(val.v), 1)
                     \o <<Unit("ws"), Unit("}")>>
          [] OTHER -> <<Lit(val)>>

\* what json.loads raises on a text that is not one JSON document
JSONDecodeError == [t |-> "JSONDecodeError"]

\* the unit at position i of text s; past the end, an end marker
At(s, i) == IF i \in 1..Len(s) THEN s[i].k ELSE "eof"

RECURSIVE SkipWs(_, _)
SkipWs(s, i) == IF At(s, i) = "ws" THEN SkipWs(s, i + 1) ELSE i

ParseFail == [ok |-> FALSE]
ParseOk(val, next) == [ok |-> TRUE, v |-> val, i |-> next]

\* the JSON scanner: the value that starts at position i of s and the
\* position after it
RECURSIVE ParseValue(_, _)
ParseValue(s, i) ==
    LET RECURSIVE Items(_, _)
        Items(j, acc) ==
            LET r == ParseValue(s, j) IN
            IF ~r.ok THEN ParseFail
            ELSE LET e == SkipWs(s, r.i) IN
                 CASE At(s, e) = "," -> Items(SkipWs(s, e + 1), Append(acc, r.v))
                   [] At(s, e) = "]" -> ParseOk(PyList(Append(acc, r.v)), e + 1)
                   [] OTHER -> ParseFail
        RECURSIVE Members(_, _)
        Members(j, acc) ==
            IF At(s, j) # "str" THEN ParseFail
            ELSE LET c == SkipWs(s, j + 1) IN
                 IF At(s, c) # ":" THEN ParseFail
                 ELSE LET r == ParseValue(s, SkipWs(s, c + 1)) IN
                      IF ~r.ok THEN ParseFail
                      ELSE LET e == SkipWs(s, r.i)
                               f == (s[j].v :> r.v) @@ acc
                           IN  CASE At(s, e) = "," -> Members(SkipWs(s, e + 1), f)
                                 [] At(s, e) = "}" -> ParseOk(PyDict(f), e + 1)
                                 [] OTHER -> ParseFail
    IN  CASE At(s, i) = "null" -> ParseOk(PyNone, i + 1)
          [] At(s, i) = "num"  -> ParseOk(PyInt(s[i].v), i + 1)
          [] At(s, i) = "str"  -> ParseOk(PyStr(s[i].v), i + 1)
          [] At(s, i) = "["    ->
                LET j == SkipWs(s, i + 1) IN
                IF At(s, j) = "]" THEN ParseOk(EmptyList, j + 1) ELSE Items(j, << >>)
          [] At(s, i) = "{"    ->
                LET j == SkipWs(s, i + 1) IN
                IF At(s, j) = "}" THEN ParseOk(EmptyDict, j + 1) ELSE Members(j, << >>)
          [] OTHER -> ParseFail

\* json.loads(text): one value, whitespace around it, nothing after it
json_loads(s) ==
    LET r == ParseValue(s, SkipWs(s, 1)) IN
    IF r.ok /\ SkipWs(s, r.i) = Len(s) + 1 THEN r.v ELSE JSONDecodeError

(***************************************************************************)
(* _try_repair_json                                                        *)
(***************************************************************************)
\* text.replace("\x00", "").lstrip("\ufeff")
RECURSIVE LStripBom(_)
LStripBom(s) == IF At(s, 1) = "bom" THEN LStripBom(Tail(s)) ELSE s

StripNulBom(s) == LStripBom(SelectSeq(s, LAMBDA u : u.k # "nul"))

\* re.sub(r",(\s*[}\]])", r"\1", cleaned): a comma is dropped when only
\* whitespace separates it from a closing brace or bracket
DropTrailingCommas(s) ==
    LET Dropped(i) == s[i].k = "," /\ At(s, SkipWs(s, i + 1)) \in {"}", "]"}
        RECURSIVE Keep(_)
        Keep(i) == IF i > Len(s) THEN << >>
                   ELSE (IF Dropped(i) THEN << >> ELSE <<s[i]>>) \o Keep(i + 1)
    IN  Keep(1)

\* max(cleaned.rfind("}"), cleaned.rfind("]")), 1-based; 0 when there is none
LastCloser(s) ==
    LET at == {i \in 1..Len(s) : s[i].k \in {"}", "]"}} IN
    IF at = {} THEN 0 ELSE CHOOSE i \in at : \A j \in at : j <= i

\* the result of _try_repair_json: the first of the three parses that
\* succeeds, else None (a text that parses to null also returns None)
try_repair_json(text) ==
    LET cleaned   == StripNulBom(text)
        cleaned2  == DropTrailingCommas(cleaned)
        cut       == LastCloser(cleaned)
        truncated == SubSeq(cleaned, 1, cut)
    IN  IF json_loads(cleaned) # JSONDecodeError THEN json_loads(cleaned)
        ELSE IF json_loads(cleaned2) # JSONDecodeError THEN json_loads(cleaned2)
        ELSE IF cut # 0 /\ json_loads(truncated) # JSONDecodeError THEN json_loads(truncated)
        ELSE PyNone

(***************************************************************************)
(* Files, and the locals of a store call                                   *)
(***************************************************************************)
FileOf(text) == [t |-> "file", text |-> text]

\* errno values an OSError may carry; the first two are the "resource busy"
\* class that save_mapping retries (line 159)
Errnos == {"EAGAIN", "EBUSY", "ENOSPC"}

IsTransientAny(e) == TRUE

IsTransient(e) == e \in {"EAGAIN", "EBUSY"}

\* bool(value)
Truthy(val) ==
    CASE val.t = "null" -> FALSE
      [] val.t = "num"  -> val.v # 0
      [] val.t = "str"  -> val.v # ""
      [] val.t = "arr"  -> Len(val.v) > 0
      [] val.t = "obj"  -> DOMAIN val.v # {}

\* the locals of the call in progress
Op0 ==
    [call     |-> "none",     \* "save" (save_mapping) or "load" (build_or_load_mapping)
     writer   |-> "none",     \* the caller of _atomic_write
     args     |-> << >>,      \* save_mapping's <<auto_rows, overrides, images>>
     payload  |-> PyNone,     \* _atomic_write's payload
     attempts |-> 0,          \* iterations of save_mapping's loop begun
     last     |-> "none",     \* errno of the last failed attempt
     exc      |-> "none",     \* exception pending in _atomic_write
     read     |-> FALSE,      \* load_mapping_raw read the file
     data_txt |-> << >>,      \* the text it read
     repaired |-> FALSE,      \* it took the repair branch
     raw      |-> PyNone,     \* load_mapping_raw's result
     wc_products |-> << >>, erp_items |-> << >>,
     after_save  |-> FALSE,   \* the call before this one was a save that returned
     saved_args  |-> << >>]   \* ... and these were its arguments

\* the outcome of the last finished call
Ret0 ==
    [call |-> "none", outcome |-> "none", exc |-> "none", value |-> << >>,
     schema_version |-> 0, args |-> << >>, payload |-> PyNone, attempts |-> 0,
     last |-> "none", read |-> FALSE, data_txt |-> << >>, repaired |-> FALSE,
     after_save |-> FALSE, saved_args |-> << >>]

Finish(outcome, exc, value, version) ==
    [call |-> op.call, outcome |-> outcome, exc |-> exc, value |-> value,
     schema_version |-> version, args |-> op.args, payload |-> op.payload,
     attempts |-> op.attempts, last |-> op.last, read |-> op.read,
     data_txt |-> op.data_txt, repaired |-> op.repaired,
     after_save |-> op.after_save, saved_args |-> op.saved_args]

(***************************************************************************)
(* Idle values of each group of variables                                  *)
(***************************************************************************)
MigrateIdle == migs = << >>
StoreIdle ==
    /\ mapping_file = Absent /\ backup_file = Absent /\ tmp_file = Absent
    /\ pc = "idle" /\ op = Op0 /\ ret = Ret0
PassIdle == sync_lock = FALSE /\ task = << >>

\* the last pass or call: none yet
Last0 == [pass |-> "none"]

SyncIdle ==
    /\ erp = << >> /\ wc = << >> /\ next_id = 0
    /\ images_map = << >> /\ seen = {} /\ last = Last0

(***************************************************************************)
(* SpecMigrate: migrate_if_needed applied, repeatedly, to a legacy document*)
(***************************************************************************)
InitMigrate ==
    /\ now = 0
    /\ migs \in {<<d>> : d \in LegacyDocs}
    /\ StoreIdle /\ PassIdle /\ SyncIdle

MigrateCall ==
    /\ Len(migs) <= MaxMigrations
    /\ migs' = Append(migs, migrate_if_needed(migs[Len(migs)], now))
    /\ now' = now + 1
    /\ UNCHANGED <<storeVars, passVars, syncVars>>

NextMigrate == MigrateCall

SpecMigrate == InitMigrate /\ [][NextMigrate]_vars

\* a document of a schema older than the current one, as the formats are
\* described: the bare list, the version-1 object (rows), the version-2
\* object (rows and overrides)
IsOlderDoc(d) ==
    \/ d.t = "arr"
    \/ /\ HasKey(d, "schema_version") /\ HasKey(d, "auto")
       /\ \/ GetSchemaVersion(d) = 1
          \/ GetSchemaVersion(d) = 2 /\ HasKey(d, "overrides")

RowsOf(d) == IF d.t = "arr" THEN d ELSE d.v["auto"]

\* C6: migrating any document of an older schema (bare list, version-1
\* object, version-2 object) yields a document holding the rows, an
\* overrides list, an images map and schema_version = SCHEMA_VERSION.
C6_OlderDocMigratesComplete ==
    \A i \in 2..Len(migs) :
        IsOlderDoc(migs[1]) =>
            /\ HasKey(migs[i], "auto") /\ migs[i].v["auto"] = RowsOf(migs[1])
            /\ HasKey(migs[i], "overrides") /\ migs[i].v["overrides"].t = "arr"
            /\ HasKey(migs[i], "images") /\ migs[i].v["images"].t = "obj"
            /\ GetSchemaVersion(migs[i]) = SCHEMA_VERSION

\* C7: migrate_if_needed is idempotent (a second migration changes nothing)
\* and never lowers the schema_version of a stamped document.
C7_MigrateIdempotentNoDowngrade ==
    /\ \A i \in 3..Len(migs) : migs[i] = migs[i-1]
    /\ \A i \in 2..Len(migs) :
          HasKey(migs[1], "schema_version") =>
              GetSchemaVersion(migs[i]) >= GetSchemaVersion(migs[1])

C7_Witness ==
    /\ Len(migs) = 3 /\ migs[2] # migs[1]
    /\ HasKey(migs[1], "schema_version") /\ GetSchemaVersion(migs[1]) < SCHEMA_VERSION

StoreRowLists == SeqUpTo({AutoRow("A", 0), AutoRow("B", 5)}, MaxRows)
SaveArgs ==
    {<<r, o, im>> : r \in StoreRowLists,
                    o \in {<< >>, <<OverrideRow("A", 7)>>}, im \in ImageMaps}

WcSnapshots == {<< >>, <<[id |-> 5, sku |-> "A"]>>}
ErpSnapshots == SeqUpTo(Codes, MaxRows)

\* no row is linked
AutoMappingUnlinked(wc_products, erp_items) ==
    [i \in 1..Len(erp_items) |-> AutoRow(erp_items[i], 0)]

\* generate_auto_mapping: one row per ERP item, linked to the product whose
\* SKU is the item code (the last one listed, as the dict comprehension keeps)
generate_auto_mapping(wc_products, erp_items) ==
    LET Hits(sku) == {i \in 1..Len(wc_products) : wc_products[i].sku = sku /\ sku # ""}
        WcId(sku) == IF Hits(sku) = {} THEN 0
                     ELSE wc_products[CHOOSE i \in Hits(sku) : \A j \in Hits(sku) : j <= i].id
    IN  [i \in 1..Len(erp_items) |-> AutoRow(erp_items[i], WcId(erp_items[i]))]

\* save_mapping(path, auto_rows, overrides, images), lines 142-156: build the
\* payload and enter the first attempt
EnterSave(call, args) ==
    [op EXCEPT !.call = call, !.writer = "save_mapping", !.args = args,
               !.payload = SavePayload(args[1], args[2], args[3], now),
               !.attempts = 1, !.last = "none", !.exc = "none"]

SaveMappingCall ==
    /\ pc = "idle"
    /\ \E args \in SaveArgs : op' = [EnterSave("save", args) EXCEPT
                                        !.after_save = FALSE, !.saved_args = << >>]
    /\ pc' = "aw_mkstemp" /\ ret' = Ret0
    /\ UNCHANGED <<now, mapping_file, backup_file, tmp_file, migrateVars, passVars, syncVars>>

\* a step of _atomic_write that raises OSError(e): to the finally clause
Raise(e, to) == pc' = to /\ op' = [op EXCEPT !.exc = e]

\* lines 115-123: stat the directory, tempfile.mkstemp in it
AwMkstemp ==
    /\ pc = "aw_mkstemp"
    /\ \E e \in {"none"} \cup Errnos :
         IF e = "none"
         THEN tmp_file' = FileOf(<< >>) /\ pc' = "aw_dump" /\ UNCHANGED op
         ELSE Raise(e, "aw_raised") /\ UNCHANGED tmp_file
    /\ UNCHANGED <<now, mapping_file, backup_file, ret, migrateVars, passVars, syncVars>>

\* a non-atomic write: the text goes straight into the destination
AwDumpInPlace ==
    /\ pc = "aw_dump"
    /\ \E e \in {"none"} \cup Errnos :
         IF e = "none"
         THEN /\ mapping_file' = FileOf(SubSeq(json_dump(op.payload), 1,
                                               Len(json_dump(op.payload)) \div 2))
              /\ pc' = "aw_flush" /\ UNCHANGED op
         ELSE Raise(e, "aw_finally") /\ UNCHANGED mapping_file
    /\ UNCHANGED <<now, tmp_file, backup_file, ret, migrateVars, passVars, syncVars>>

\* line 126: json.dump into the temp file; the first part of the text
\* reaches the file as the buffer fills
AwDump ==
    /\ pc = "aw_dump"
    /\ \E e \in {"none"} \cup Errnos :
         IF e = "none"
         THEN /\ tmp_file' = FileOf(SubSeq(json_dump(op.payload), 1,
                                           Len(json_dump(op.payload)) \div 2))
              /\ pc' = "aw_flush" /\ UNCHANGED op
         ELSE Raise(e, "aw_finally") /\ UNCHANGED tmp_file
    /\ UNCHANGED <<now, mapping_file, backup_file, ret, migrateVars, passVars, syncVars>>

\* line 127: flush: the rest of the text reaches the file
AwFlush ==
    /\ pc = "aw_flush"
    /\ \E e \in {"none"} \cup Errnos :
         IF e = "none"
         THEN tmp_file' = FileOf(json_dump(op.payload)) /\ pc' = "aw_fsync" /\ UNCHANGED op
         ELSE Raise(e, "aw_finally") /\ UNCHANGED tmp_file
    /\ UNCHANGED <<now, mapping_file, backup_file, ret, migrateVars, passVars, syncVars>>

\* line 128: os.fsync, then the file is closed
AwFsync ==
    /\ pc = "aw_fsync"
    /\ \E e \in {"none"} \cup Errnos :
         IF e = "none" THEN pc' = "aw_chown" /\ UNCHANGED op ELSE Raise(e, "aw_finally")
    /\ UNCHANGED <<now, mapping_file, backup_file, tmp_file, ret, migrateVars, passVars, syncVars>>

\* lines 130-134: chown to the directory's owner; PermissionError is swallowed
AwChown ==
    /\ pc = "aw_chown"
    /\ pc' = "aw_replace"
    /\ UNCHANGED <<now, mapping_file, backup_file, tmp_file, op, ret, migrateVars, passVars, syncVars>>

\* line 136: os.replace(tmp_path, path), one atomic rename
AwReplace ==
    /\ pc = "aw_replace"
    /\ \E e \in {"none"} \cup Errnos :
         IF e = "none"
         THEN /\ mapping_file' = tmp_file /\ tmp_file' = Absent
              /\ pc' = "aw_finally" /\ UNCHANGED op
         ELSE Raise(e, "aw_finally") /\ UNCHANGED <<mapping_file, tmp_file>>
    /\ UNCHANGED <<now, backup_file, ret, migrateVars, passVars, syncVars>>

\* lines 137-139: finally: unlink the temp file if it still exists
AwFinally ==
    /\ pc = "aw_finally"
    /\ tmp_file' = Absent
    /\ pc' = IF op.exc = "none" THEN "aw_returned" ELSE "aw_raised"
    /\ UNCHANGED <<now, mapping_file, backup_file, op, ret, migrateVars, passVars, syncVars>>

\* save_mapping lines 155-163, after an attempt: return, retry after the
\* delay, give up with RuntimeError, or let the OSError through.
\* build_or_load_mapping line 227 returns what it saved.
SaveAttemptDone ==
    /\ pc \in {"aw_returned", "aw_raised"} /\ op.writer = "save_mapping"
    /\ IF pc = "aw_returned"
       THEN /\ ret' = IF op.call = "save"
                      THEN Finish("return", "none", << >>, 0)
                      ELSE Finish("return", "none",
                                  <<PyList(op.args[1]), PyList(op.args[2]), PyDict(op.args[3])>>,
                                  SCHEMA_VERSION)
            /\ pc' = "idle" /\ op' = Op0
       ELSE IF IsTransient(op.exc)
       THEN IF op.attempts < SAVE_RETRIES
            THEN /\ op' = [op EXCEPT !.attempts = @ + 1, !.last = op.exc, !.exc = "none"]
                 /\ pc' = "aw_mkstemp" /\ UNCHANGED ret
            ELSE /\ ret' = [Finish("raise", "RuntimeError", << >>, 0) EXCEPT !.last = op.exc]
                 /\ pc' = "idle" /\ op' = Op0
       ELSE /\ ret' = [Finish("raise", op.exc, << >>, 0) EXCEPT !.last = op.exc]
            /\ pc' = "idle" /\ op' = Op0
    /\ UNCHANGED <<now, mapping_file, backup_file, tmp_file, migrateVars, passVars, syncVars>>

\* build_or_load_mapping(path, wc_products, erp_items), line 218
BuildOrLoadCall ==
    /\ pc = "idle"
    /\ \E wcs \in WcSnapshots, items \in ErpSnapshots :
         op' = [Op0 EXCEPT !.call = "load", !.wc_products = wcs, !.erp_items = items,
                           !.after_save = (ret.call = "save" /\ ret.outcome = "return"),
                           !.saved_args = IF ret.call = "save" /\ ret.outcome = "return"
                                          THEN ret.args ELSE << >>]
    /\ pc' = "load_raw" /\ ret' = Ret0
    /\ UNCHANGED <<now, mapping_file, backup_file, tmp_file, migrateVars, passVars, syncVars>>

\* line 78, negated: the repair gave nothing
RepairNeverFails(repaired) == FALSE

RepairFailed(repaired) == repaired = PyNone

\* load_mapping_raw lines 68-78 and 86-87: read, parse, try the repair
LoadMappingRaw ==
    /\ pc = "load_raw"
    /\ IF mapping_file = Absent
       THEN pc' = "build_or_load" /\ op' = [op EXCEPT !.raw = PyNone] /\ UNCHANGED ret
       ELSE LET data_txt == mapping_file.text
                parsed   == json_loads(data_txt)
                repaired == try_repair_json(data_txt)
            IN  IF parsed # JSONDecodeError
                THEN /\ pc' = "build_or_load"
                     /\ op' = [op EXCEPT !.read = TRUE, !.data_txt = data_txt, !.raw = parsed]
                     /\ UNCHANGED ret
                ELSE IF RepairFailed(repaired)
                THEN /\ ret' = [Finish("raise", "JSONDecodeError", << >>, 0) EXCEPT
                                   !.read = TRUE, !.data_txt = data_txt]
                     /\ pc' = "idle" /\ op' = Op0
                ELSE /\ pc' = "backup"
                     /\ op' = [op EXCEPT !.read = TRUE, !.data_txt = data_txt,
                                         !.repaired = TRUE, !.raw = repaired,
                                         !.payload = repaired, !.writer = "load_mapping_raw"]
                     /\ UNCHANGED ret
    /\ UNCHANGED <<now, mapping_file, backup_file, tmp_file, migrateVars, passVars, syncVars>>

\* lines 80-83: shutil.copy2(path, path + BACKUP_SUFFIX); whatever it raises
\* is swallowed.  The copy is whole, or fails before writing, or part-way.
BackupCopy ==
    /\ pc = "backup"
    /\ \E outcome \in {"copied", "failed", "partial"} :
         backup_file' = CASE outcome = "copied"  -> mapping_file
                          [] outcome = "failed"  -> backup_file
                          [] outcome = "partial" ->
                               FileOf(SubSeq(op.data_txt, 1, Len(op.data_txt) \div 2))
    /\ pc' = "aw_mkstemp"
    /\ UNCHANGED <<now, mapping_file, tmp_file, op, ret, migrateVars, passVars, syncVars>>

\* lines 84-85: _atomic_write(path, repaired) came back; return repaired, or
\* the OSError leaves load_mapping_raw
LoadRepairDone ==
    /\ pc \in {"aw_returned", "aw_raised"} /\ op.writer = "load_mapping_raw"
    /\ IF pc = "aw_returned"
       THEN pc' = "build_or_load" /\ UNCHANGED <<op, ret>>
       ELSE ret' = Finish("raise", op.exc, << >>, 0) /\ pc' = "idle" /\ op' = Op0
    /\ UNCHANGED <<now, mapping_file, backup_file, tmp_file, migrateVars, passVars, syncVars>>

\* build_or_load_mapping lines 219-227: migrate and return what was loaded,
\* or generate a fresh mapping and save it
BuildOrLoad ==
    /\ pc = "build_or_load"
    /\ IF Truthy(op.raw)
       THEN LET raw == migrate_if_needed(op.raw, now) IN
            /\ ret' = IF HasKey(raw, "auto") /\ HasKey(raw, "overrides")
                      THEN Finish("return", "none",
                                  <<raw.v["auto"], raw.v["overrides"],
                                    IF HasKey(raw, "images") THEN raw.v["images"] ELSE EmptyDict>>,
                                  GetSchemaVersion(raw))
                      ELSE Finish("raise", "KeyError", << >>, 0)
            /\ pc' = "idle" /\ op' = Op0
       ELSE /\ op' = EnterSave("load", <<generate_auto_mapping(op.wc_products, op.erp_items),
                                         << >>, << >>>>)
            /\ pc' = "aw_mkstemp" /\ UNCHANGED ret
    /\ UNCHANGED <<now, mapping_file, backup_file, tmp_file, migrateVars, passVars, syncVars>>

\* the process is killed between two steps: its locals are gone, the files
\* stay as they are
Kill ==
    /\ pc \notin {"idle", "killed"}
    /\ pc' = "killed" /\ op' = Op0 /\ ret' = Ret0
    /\ UNCHANGED <<now, mapping_file, backup_file, tmp_file, migrateVars, passVars, syncVars>>

\* a new process: no locals survive, the files do.  A temp file left
\* behind keeps a name that no later mkstemp returns, so it is out of the
\* model from here on.
Restart ==
    /\ pc = "killed"
    /\ pc' = "idle" /\ tmp_file' = Absent
    /\ UNCHANGED <<now, mapping_file, backup_file, op, ret, migrateVars, passVars, syncVars>>

(***************************************************************************)
(* SpecSave: saves and loads of a mapping file that is absent or whole     *)
(***************************************************************************)
InitSave ==
    /\ now \in 0..MaxClock
    /\ mapping_file \in {Absent, FileOf(json_dump(SavePayload(<< >>, << >>, << >>, 0)))}
    /\ backup_file = Absent /\ tmp_file = Absent
    /\ pc = "idle" /\ op = Op0 /\ ret = Ret0
    /\ MigrateIdle /\ PassIdle /\ SyncIdle

NextSave ==
    \/ SaveMappingCall \/ AwMkstemp \/ AwDump \/ AwFlush \/ AwFsync \/ AwChown
    \/ AwReplace \/ AwFinally \/ SaveAttemptDone
    \/ BuildOrLoadCall \/ LoadMappingRaw \/ BuildOrLoad
    \/ Kill \/ Restart

SpecSave == InitSave /\ [][NextSave]_vars

(***************************************************************************)
(* Claims about saving, checked under SpecSave                             *)
(***************************************************************************)

\* C3: a save is atomic and crash-safe.  The mapping file changes in one
\* step only, the rename at the end of _atomic_write, and what that step
\* installs is the complete text of the new document; every other step,
\* a crash included, leaves the file exactly as it was.
C3_SaveIsAtomic ==
    [][\/ mapping_file' = mapping_file
       \/ /\ pc = "aw_replace"
          /\ mapping_file' = FileOf(json_dump(op.payload))]_vars

\* the process died while the temp file held half of the text, and the
\* mapping file that was there before is still there
C3_Witness ==
    /\ pc = "killed"
    /\ mapping_file # Absent
    /\ tmp_file # Absent
    /\ Len(tmp_file.text) > 0
    /\ json_loads(tmp_file.text) = JSONDecodeError

\* C4: save_mapping makes at most SAVE_RETRIES attempts; it makes another
\* attempt only after an attempt failed with EAGAIN or EBUSY; when it
\* returns the file holds its payload; it raises RuntimeError only when the
\* last allowed attempt failed with EAGAIN or EBUSY, and any other OSError
\* leaves it on the attempt that met it.
C4_SaveRetries ==
    /\ op.attempts <= SAVE_RETRIES
    /\ ret.attempts <= SAVE_RETRIES
    /\ (op.writer = "save_mapping" /\ op.attempts > 1) => op.last \in {"EAGAIN", "EBUSY"}
    /\ (ret.call = "save" /\ ret.outcome = "return") =>
           mapping_file = FileOf(json_dump(ret.payload))
    /\ (ret.call = "save" /\ ret.outcome = "raise") =>
           IF ret.exc = "RuntimeError"
           THEN ret.attempts = SAVE_RETRIES /\ ret.last \in {"EAGAIN", "EBUSY"}
           ELSE ret.exc \in Errnos \ {"EAGAIN", "EBUSY"} /\ ret.last = ret.exc

\* save_mapping gave up after the last retry
C4_Witness ==
    /\ pc = "idle"
    /\ ret.call = "save" /\ ret.outcome = "raise" /\ ret.exc = "RuntimeError"
    /\ ret.attempts = SAVE_RETRIES

\* C5: build_or_load_mapping called right after a save_mapping that
\* returned gives back the rows, overrides and images that were saved, and
\* the document it read them from carries SCHEMA_VERSION.
C5_SaveLoadRoundTrip ==
    (ret.call = "load" /\ ret.after_save) =>
        /\ ret.outcome = "return"
        /\ ret.value = <<PyList(ret.saved_args[1]), PyList(ret.saved_args[2]),
                         PyDict(ret.saved_args[3])>>
        /\ ret.schema_version = SCHEMA_VERSION

\* a load returned after a save of at least one row and one image record
C5_Witness ==
    /\ ret.call = "load" /\ ret.after_save /\ ret.outcome = "return"
    /\ Len(ret.saved_args[1]) > 0
    /\ DOMAIN ret.saved_args[3] # {}

(***************************************************************************)
(* SpecLoad: loads of a mapping file in any condition: absent, whole (of   *)
(* any schema generation), or damaged                                      *)
(***************************************************************************)
\* a text cut off mid-write, or with a dangling comma before its last
\* closer, or with stray bytes before or after it, or both
Damaged(text) ==
    LET n == Len(text)
        dangling == SubSeq(text, 1, n - 2) \o <<Unit(",")>> \o SubSeq(text, n - 1, n)
    IN  {SubSeq(text, 1, k) : k \in 0..(n - 1)} \cup
        {text \o <<Unit("junk")>>, text \o <<Unit(",")>>, text \o <<Unit("nul")>>,
         text \o <<Unit("ws"), Unit("nul"), Unit("nul")>>,
         <<Unit("bom")>> \o text, <<Unit("nul")>> \o text \o <<Unit("nul")>>,
         dangling, dangling \o <<Unit("junk")>>, <<Unit("bom")>> \o dangling}

WholeDocs ==
    {SavePayload(<< >>, << >>, << >>, 0),
     SavePayload(<<AutoRow("A", 5)>>, <<OverrideRow("A", 7)>>, << >>, 0),
     PyList(<<BareRow("A")>>),
     PyDict([schema_version |-> PyInt(1), auto |-> PyList(<<BareRow("A")>>)]),
     PyDict([schema_version |-> PyInt(2), auto |-> PyList(<<BareRow("A")>>),
             overrides |-> EmptyList]),
     PyNone, EmptyDict, EmptyList}

InitLoadFiles ==
    {Absent} \cup {FileOf(json_dump(d)) : d \in WholeDocs} \cup
    {FileOf(x) : x \in Damaged(json_dump(SavePayload(<< >>, << >>, << >>, 0)))
                       \cup Damaged(json_dump(PyList(<<BareRow("A")>>)))}

InitLoad ==
    /\ now \in 0..MaxClock
    /\ mapping_file \in InitLoadFiles
    /\ backup_file = Absent /\ tmp_file = Absent
    /\ pc = "idle" /\ op = Op0 /\ ret = Ret0
    /\ MigrateIdle /\ PassIdle /\ SyncIdle

NextLoad ==
    \/ BuildOrLoadCall \/ LoadMappingRaw \/ BackupCopy
    \/ AwMkstemp \/ AwDump \/ AwFlush \/ AwFsync \/ AwChown \/ AwReplace \/ AwFinally
    \/ LoadRepairDone \/ SaveAttemptDone \/ BuildOrLoad
    \/ Kill \/ Restart

SpecLoad == InitLoad /\ [][NextLoad]_vars

(***************************************************************************)
(* Claims about loading a damaged file, checked under SpecLoad             *)
(***************************************************************************)

\* C9: whenever load_mapping_raw has replaced a damaged file by its
\* repaired content, the backup file holds the damaged text it read.
C9_BackupBeforeOverwrite ==
    /\ (op.repaired /\ mapping_file # FileOf(op.data_txt)) =>
           backup_file = FileOf(op.data_txt)
    /\ (ret.repaired /\ mapping_file # FileOf(ret.data_txt)) =>
           backup_file = FileOf(ret.data_txt)

\* no repair attempt gives a document: the text does not parse and
\* _try_repair_json returns None
Unrepairable(text) ==
    /\ json_loads(text) = JSONDecodeError
    /\ try_repair_json(text) = PyNone

\* C10: when the text read does not parse and every repair attempt fails,
\* the load raises the parse error, and the mapping file still holds the
\* text that was read; no backup and no temp file were written.
C10_UnrepairableLeftUntouched ==
    /\ (op.read /\ Unrepairable(op.data_txt)) =>
           /\ mapping_file = FileOf(op.data_txt)
           /\ backup_file = Absent /\ tmp_file = Absent
    /\ (ret.read /\ Unrepairable(ret.data_txt)) =>
           /\ ret.call = "load" /\ ret.outcome = "raise"
           /\ ret.exc = "JSONDecodeError"
           /\ mapping_file = FileOf(ret.data_txt)
           /\ backup_file = Absent /\ tmp_file = Absent

\* a load of a damaged, unrepairable file raised
C10_Witness ==
    /\ pc = "idle"
    /\ ret.call = "load" /\ ret.outcome = "raise" /\ ret.exc = "JSONDecodeError"
    /\ ret.read /\ Len(ret.data_txt) > 1
    /\ mapping_file = FileOf(ret.data_txt)

\* what an interrupted write leaves of a whole text: a prefix that still
\* holds a complete inner structure, a dangling comma before the last
\* closer, stray bytes after the document, or the last two together
InterruptedWrites(text) ==
    LET n == Len(text)
        dangling == SubSeq(text, 1, n - 2) \o <<Unit(",")>> \o SubSeq(text, n - 1, n)
    IN  {SubSeq(text, 1, k) : k \in {j \in 1..(n - 1) : text[j].k \in {"}", "]"}}} \cup
        {dangling, text \o <<Unit("junk")>>, dangling \o <<Unit("junk")>>}

InterruptedWriteTexts ==
    InterruptedWrites(json_dump(SavePayload(<< >>, << >>, << >>, 0))) \cup
    InterruptedWrites(json_dump(PyList(<<BareRow("A")>>)))

\* C11: a load that read a text left by an interrupted write does not end
\* with the parse error: the repair pipeline recovers a document from it.
C11_InterruptedWriteRecovered ==
    (ret.call = "load" /\ ret.read /\ ret.data_txt \in InterruptedWriteTexts) =>
        ~(ret.outcome = "raise" /\ ret.exc = "JSONDecodeError")

(***************************************************************************)
(* SpecPass: invocations of the pass entry points on one event loop.       *)
(* task[t] is the coroutine of invocation t.  A step of a bulk handler     *)
(* runs from one await to the next, where the event loop may switch to     *)
(* another invocation.  sync_products is stepped statement by statement:   *)
(* it can be left between any two of its statements, which covers every    *)
(* schedule the event loop can produce.  What the passes put into the      *)
(* mapping file is not part of this specification: a task records that it  *)
(* has loaded the document and that it has saved it.                       *)
(***************************************************************************)
Tasks == 1..MaxTasks

Task0 ==
    [entry  |-> "none",   \* the entry point invoked
     pc     |-> "idle",   \* where the coroutine is suspended
     result |-> "none",   \* "locked", "raised" or "ok" once it is done
     loaded |-> FALSE,    \* it has read the mapping document
     saved  |-> FALSE,    \* it has written the mapping document
     items  |-> 0]        \* rows of its loop still to be processed

Enter(t, entry, at) ==
    task' = [task EXCEPT ![t] = [Task0 EXCEPT !.entry = entry, !.pc = at]]

\* run_full_sync without the locked() test: "async with" waits for the lock
RunFullSyncWaits(t) ==
    /\ task[t].pc = "idle"
    /\ IF sync_lock
       THEN Enter(t, "run_full_sync", "waiting") /\ UNCHANGED sync_lock
       ELSE Enter(t, "run_full_sync", "sp_fetch") /\ sync_lock' = TRUE
    /\ UNCHANGED <<now, migrateVars, storeVars, syncVars>>

\* sync_core.run_full_sync lines 14-19: answer "locked" if the lock is
\* held, else take it and enter sync_products
RunFullSync(t) ==
    /\ task[t].pc = "idle"
    /\ IF sync_lock
       THEN /\ task' = [task EXCEPT ![t] = [Task0 EXCEPT !.entry = "run_full_sync",
                                                         !.pc = "done", !.result = "locked"]]
            /\ UNCHANGED sync_lock
       ELSE Enter(t, "run_full_sync", "sp_fetch") /\ sync_lock' = TRUE
    /\ UNCHANGED <<now, migrateVars, storeVars, syncVars>>

\* sync_products lines 30-32: fetch the ERP items, make the (never awaited)
\* get_wc_products coroutine
SpFetch(t) ==
    /\ task[t].pc = "sp_fetch"
    /\ task' = [task EXCEPT ![t].pc = "sp_load"]
    /\ UNCHANGED <<now, sync_lock, migrateVars, storeVars, syncVars>>

\* the exception leaves run_full_sync with the lock still held
SpLoadKeepsLock(t) ==
    /\ task[t].pc = "sp_load"
    /\ task' = [task EXCEPT ![t].pc = "done", ![t].result = "raised", ![t].loaded = TRUE]
    /\ UNCHANGED <<now, sync_lock, migrateVars, storeVars, syncVars>>

\* sync_products line 33: build_or_load_mapping reads the document, and
\* unpacking its three results into two names raises (or, with no file,
\* iterating the coroutine raises); the exception leaves run_full_sync
\* through "async with", which releases the lock (line 18)
SpLoad(t) ==
    /\ task[t].pc = "sp_load"
    /\ task' = [task EXCEPT ![t].pc = "done", ![t].result = "raised", ![t].loaded = TRUE]
    /\ sync_lock' = FALSE
    /\ UNCHANGED <<now, migrateVars, storeVars, syncVars>>

\* admin_routes.bulk_create line 174: into get_fresh_data, up to
\* "await get_wc_products()" (line 139)
BulkCreate(t) ==
    /\ task[t].pc = "idle"
    /\ Enter(t, "bulk_create", "fresh_wc")
    /\ UNCHANGED <<now, sync_lock, migrateVars, storeVars, syncVars>>

\* admin_routes.bulk_update line 254: "await get_default_pricelist()"
BulkUpdate(t) ==
    /\ task[t].pc = "idle"
    /\ Enter(t, "bulk_update", "pricelist")
    /\ UNCHANGED <<now, sync_lock, migrateVars, storeVars, syncVars>>

\* admin_routes.bulk_delete line 301: into get_fresh_data, up to
\* "await get_wc_products()"
BulkDelete(t) ==
    /\ task[t].pc = "idle"
    /\ Enter(t, "bulk_delete", "fresh_wc")
    /\ UNCHANGED <<now, sync_lock, migrateVars, storeVars, syncVars>>

\* the loop of a bulk handler over n rows that need a remote call, and the
\* save_mapping after it: with no such row the save follows at once
\* (lines 182-243, 261-295, 308-322)
EnterLoop(t, n) ==
    task' = [task EXCEPT ![t].loaded = TRUE,
                         ![t].items = n,
                         ![t].pc = IF n = 0 THEN "done" ELSE "items",
                         ![t].saved = (n = 0),
                         ![t].result = IF n = 0 THEN "ok" ELSE "none"]

\* get_fresh_data lines 141-155 once the products are there: load the
\* document (build_or_load_mapping), apply the overrides, scrub stale
\* links; then bulk_create awaits the price list (line 175) and the other
\* two enter their loop
GetFreshData(t) ==
    /\ task[t].pc = "fresh_wc"
    /\ IF task[t].entry = "bulk_create"
       THEN task' = [task EXCEPT ![t].loaded = TRUE, ![t].pc = "pricelist"]
       ELSE \E n \in 0..MaxItems : EnterLoop(t, n)
    /\ UNCHANGED <<now, sync_lock, migrateVars, storeVars, syncVars>>

\* get_default_pricelist came back: bulk_update goes on to get_fresh_data
\* (line 255), bulk_create enters its loop (line 182)
GetDefaultPricelist(t) ==
    /\ task[t].pc = "pricelist"
    /\ IF task[t].entry = "bulk_update"
       THEN task' = [task EXCEPT ![t].pc = "fresh_wc"]
       ELSE \E n \in 0..MaxItems : EnterLoop(t, n)
    /\ UNCHANGED <<now, sync_lock, migrateVars, storeVars, syncVars>>

\* the awaits of one row of the loop (price lookup, create / update /
\* delete call, image sync); after the last row, save_mapping and return
LoopItem(t) ==
    /\ task[t].pc = "items"
    /\ EnterLoop(t, task[t].items - 1)
    /\ UNCHANGED <<now, sync_lock, migrateVars, storeVars, syncVars>>

\* the response is out; the slot is free for a new invocation
Respond(t) ==
    /\ task[t].pc = "done"
    /\ task' = [task EXCEPT ![t] = Task0]
    /\ UNCHANGED <<now, sync_lock, migrateVars, storeVars, syncVars>>

InitPass ==
    /\ now = 0
    /\ MigrateIdle /\ StoreIdle /\ SyncIdle
    /\ sync_lock = FALSE
    /\ task = [t \in Tasks |-> Task0]

NextPass ==
    \E t \in Tasks :
        \/ RunFullSync(t) \/ SpFetch(t) \/ SpLoad(t)
        \/ BulkCreate(t) \/ BulkUpdate(t) \/ BulkDelete(t)
        \/ GetFreshData(t) \/ GetDefaultPricelist(t) \/ LoopItem(t)
        \/ Respond(t)

SpecPass == InitPass /\ [][NextPass]_vars

\* a coroutine that holds the lock is run on by the event loop: nothing in
\* sync_products waits for another task
SpecPassLive == SpecPass /\ \A t \in Tasks : WF_vars(SpFetch(t) \/ SpLoad(t))

\* invocation t is between loading the document and saving it
InPass(t) == task[t].loaded /\ ~task[t].saved /\ task[t].pc # "done"

\* C1: a run_full_sync invocation that starts while sync_lock is held is
\* done in that same step with the result "locked": it does not enter
\* sync_products, it has neither read nor written the mapping document,
\* and it leaves the lock and every other invocation as they were.
C1_LockedReturnsAtOnce ==
    [][\A t \in Tasks :
          (/\ sync_lock
           /\ task[t].pc = "idle"
           /\ task'[t].pc # "idle"
           /\ task'[t].entry = "run_full_sync") =>
              /\ task'[t].pc = "done" /\ task'[t].result = "locked"
              /\ ~task'[t].loaded /\ ~task'[t].saved
              /\ sync_lock' = sync_lock
              /\ mapping_file' = mapping_file
              /\ \A u \in Tasks \ {t} : task'[u] = task[u]]_vars

\* one invocation is inside sync_products with the lock, another was
\* answered "locked"
C1_Witness ==
    \E t, u \in Tasks :
        /\ sync_lock
        /\ task[t].entry = "run_full_sync" /\ task[t].pc \in {"sp_fetch", "sp_load"}
        /\ task[u].entry = "run_full_sync" /\ task[u].pc = "done"
        /\ task[u].result = "locked" /\ ~task[u].loaded

\* C2: no two invocations are between loading and saving the document at
\* the same time.
C2_OnePassAtATime ==
    \A t, u \in Tasks : (t # u /\ InPass(t)) => ~InPass(u)

(***************************************************************************)
(* The two remote systems.  The ERP holds the item codes in listing order, *)
(* a price per code (0 = no Item Price in the price list) and an image     *)
(* list per code.  The storefront holds products, each with its gallery of *)
(* media ids, and gives out ids for new products and new media.            *)
(***************************************************************************)
Range(q) == {q[i] : i \in 1..Len(q)}

\* the least and the greatest element of a non-empty set of integers
Least(S) == CHOOSE x \in S : \A y \in S : x <= y
Greatest(S) == CHOOSE x \in S : \A y \in S : y <= x

\* one record of fetch_item_images, with the SHA-256 of what its URL serves
ErpImage(url, sha256) == [url |-> url, filename |-> "f", sha256 |-> sha256]

\* a product as the storefront lists it
Product(id, sku, name, regular_price, images) ==
    [id |-> id, sku |-> sku, name |-> name, regular_price |-> regular_price,
     description |-> "", short_description |-> "", images |-> images]

\* wc_by_id.get(id): the products with that id (at most one)
ProductsById(wc_products, id) == {i \in 1..Len(wc_products) : wc_products[i].id = id}

\* wc_get_product_images(product_id): the gallery of the product
wc_get_product_images(wc_products, product_id) ==
    wc_products[CHOOSE i \in ProductsById(wc_products, product_id) : TRUE].images

\* wc_update_product_images(product_id, payload): the gallery becomes the
\* media ids of the payload, in its order
wc_update_product_images(wc_products, product_id, images_payload) ==
    [i \in 1..Len(wc_products) |->
        IF wc_products[i].id = product_id
        THEN [wc_products[i] EXCEPT !.images =
                 [j \in 1..Len(images_payload) |-> images_payload[j].id.v]]
        ELSE wc_products[i]]

(***************************************************************************)
(* The image map and sync_item_images                                      *)
(***************************************************************************)
\* upsert_image_mapping's record, lines 260-267
ImageRecordOf(erp_url, sha256, woo_media_id, filename, position, clock) ==
    PyDict([erp_url      |-> PyStr(erp_url),
            sha256       |-> PyStr(sha256),
            woo_media_id |-> woo_media_id,
            filename     |-> PyStr(filename),
            position     |-> PyInt(position),
            updated_at   |-> now_iso(clock)])

\* get_images_for_item: images_map.get(item_code, [])
get_images_for_item(imap, item_code) ==
    IF item_code \in DOMAIN imap THEN imap[item_code].v ELSE << >>

\* the records of a list whose erp_url is the given one
RecordsOfUrl(lst, erp_url) ==
    {i \in 1..Len(lst) : lst[i].v["erp_url"] = PyStr(erp_url)}

\* upsert_image_mapping on the list of one item: update the first record of
\* the URL in place, or append a new record
upsert_image_mapping(lst, erp_url, sha256, woo_media_id, filename, position, clock) ==
    LET rec == ImageRecordOf(erp_url, sha256, woo_media_id, filename, position, clock)
        hits == RecordsOfUrl(lst, erp_url)
    IN  IF hits # {}
        THEN [lst EXCEPT ![Least(hits)] =
                 PyDict([k \in DOMAIN @.v \cup DOMAIN rec.v |->
                            IF k \in DOMAIN rec.v THEN rec.v[k] ELSE @.v[k]])]
        ELSE Append(lst, rec)

\* remove_image_mapping on the list of one item
RECURSIVE remove_image_mapping(_, _)
remove_image_mapping(lst, erp_url) ==
    IF lst = << >> THEN << >>
    ELSE IF lst[1].v["erp_url"] = PyStr(erp_url)
    THEN remove_image_mapping(Tail(lst), erp_url)
    ELSE <<lst[1]>> \o remove_image_mapping(Tail(lst), erp_url)

\* a dry run that uploads all the same
UploadsAlways(dry_run) == TRUE

\* lines 87-96: a needed upload is made unless the call is a dry run
UploadsMedia(dry_run) == ~dry_run

\* sync_item_images lines 70-114, iterations i..n of the loop over the ERP
\* images.  cx holds what the loop only reads; st what it builds: the
\* item's list in the image map, the payload, the report lists, the media
\* id of each position, the next media id of the storefront and the
\* number of uploads.
RECURSIVE ImagesLoop(_, _, _)
ImagesLoop(cx, st, i) ==
    IF i > Len(cx.erp_images) THEN st
    ELSE
      LET erp_img  == cx.erp_images[i]
          pos      == i - 1
          \* line 76: current_by_url covers the records the map had at the start
          prevs    == {j \in RecordsOfUrl(st.lst, erp_img.url) : j <= cx.n0}
          prev     == st.lst[Greatest(prevs)]
          \* line 81
          reuse    == /\ prevs # {}
                      /\ prev.v["sha256"] = PyStr(erp_img.sha256)
                      /\ prev.v["woo_media_id"] \in cx.woo_ids_present
          live     == UploadsMedia(cx.dry_run)
          media_id == IF reuse THEN prev.v["woo_media_id"]
                      ELSE IF ~live THEN PyNone
                      ELSE PyInt(st.next_id)
          entry    == [id |-> media_id, position |-> pos]
      IN  ImagesLoop(cx,
            [lst       |-> upsert_image_mapping(st.lst, erp_img.url, erp_img.sha256,
                                                media_id, erp_img.filename, pos, cx.clock),
             payload   |-> IF reuse \/ live THEN Append(st.payload, entry)
                           ELSE st.payload,
             uploaded  |-> IF reuse THEN st.uploaded ELSE Append(st.uploaded, erp_img.url),
             unchanged |-> IF reuse THEN Append(st.unchanged, erp_img.url) ELSE st.unchanged,
             media     |-> Append(st.media, media_id),
             next_id   |-> IF reuse \/ ~live THEN st.next_id ELSE st.next_id + 1,
             uploads   |-> IF reuse \/ ~live THEN st.uploads ELSE st.uploads + 1],
            i + 1)

\* lines 116-125: drop the records whose URL the ERP no longer lists
RECURSIVE DropGone(_, _, _)
DropGone(lst, current_map, erp_urls) ==
    IF current_map = << >> THEN lst
    ELSE DropGone(IF current_map[1].v["erp_url"].v \in erp_urls THEN lst
                  ELSE remove_image_mapping(lst, current_map[1].v["erp_url"].v),
                  Tail(current_map), erp_urls)

\* sync_item_images(erp_item_code, wc_product_id, images_map, dry_run) with
\* every remote call answered: what it leaves in the image map and on the
\* storefront, and what it did
sync_item_images(erp_item_code, wc_product_id, imap, dry_run, erp_images, wc_products, nid, clock) ==
    LET had_key  == erp_item_code \in DOMAIN imap
        current_map == get_images_for_item(imap, erp_item_code)
        woo_imgs == wc_get_product_images(wc_products, wc_product_id)
        cx == [erp_images |-> erp_images, dry_run |-> dry_run, clock |-> clock,
               n0 |-> Len(current_map),
               \* line 65: the ids as strings
               woo_ids_present |-> {PyStr(ToString(woo_imgs[j])) : j \in 1..Len(woo_imgs)}]
        st == ImagesLoop(cx, [lst |-> current_map, payload |-> << >>, uploaded |-> << >>,
                              unchanged |-> << >>, media |-> << >>, next_id |-> nid,
                              uploads |-> 0], 1)
        erp_urls == {erp_images[j].url : j \in 1..Len(erp_images)}
        \* line 118 walks the live list when the map had the key
        lst == DropGone(st.lst, IF had_key THEN st.lst ELSE << >>, erp_urls)
        update == st.payload # << >> /\ ~dry_run
    IN  [images_map |-> IF had_key \/ erp_images # << >>
                        THEN [k \in DOMAIN imap \cup {erp_item_code} |->
                                 IF k = erp_item_code THEN PyList(lst) ELSE imap[k]]
                        ELSE imap,
         wc         |-> IF update
                        THEN wc_update_product_images(wc_products, wc_product_id, st.payload)
                        ELSE wc_products,
         next_id    |-> st.next_id,
         new_payload |-> st.payload,
         uploaded   |-> st.uploaded,
         unchanged  |-> st.unchanged,
         media      |-> st.media,
         uploads    |-> st.uploads,
         updates    |-> IF update THEN 1 ELSE 0]

(***************************************************************************)
(* SpecImages: calls of sync_item_images for item "A" and its product 5,   *)
(* while the ERP's image list of the item is edited between calls          *)
(***************************************************************************)
ErpImageLists ==
    SeqUpTo({ErpImage("u", "h1"), ErpImage("u", "h2"), ErpImage("v", "h1")}, MaxImages)

\* the ERP with one item and the given image list for it
ErpOfImages(imgs) ==
    [items  |-> <<"A">>,
     price  |-> [c \in Codes |-> 0],
     images |-> [c \in Codes |-> IF c = "A" THEN imgs ELSE << >>]]

InitImages ==
    /\ now = 0
    /\ MigrateIdle /\ StoreIdle /\ PassIdle
    /\ erp \in {ErpOfImages(imgs) : imgs \in ErpImageLists}
    /\ wc \in {<<Product(5, "A", "A", "10.00", g)>> : g \in {<< >>, <<9>>}}
    /\ next_id = 10
    /\ images_map \in {<< >>,
                       [A |-> PyList(<<ImageRecordOf("u", "h1", PyInt(9), "f", 0, 0)>>)]}
    /\ seen = {}
    /\ last = Last0

\* fetch_item_images(item_code), lines 92-107: the item's images, or [] when
\* get_doc raised
fetch_item_images(listed, answer) == IF answer = "ok" THEN listed ELSE << >>

\* one whole call sync_item_images("A", 5, images_map, dry_run), with the
\* ERP answering the fetch of the item or not
SyncItemImagesWith(fetch) ==
    /\ next_id <= MaxMediaId
    /\ \E dry_run \in BOOLEAN :
       \E erp_images \in {fetch_item_images(erp.images["A"], fetch)} :
         LET r == sync_item_images("A", 5, images_map, dry_run, erp_images,
                                   wc, next_id, now)
         IN  /\ images_map' = r.images_map
             /\ wc' = r.wc
             /\ next_id' = r.next_id
             /\ last' = [pass |-> "sync_item_images", erp_item_code |-> "A",
                         wc_product_id |-> 5, dry_run |-> dry_run,
                         fetch |-> fetch, erp_listed |-> erp.images["A"],
                         erp_images |-> erp_images,
                         map_before |-> get_images_for_item(images_map, "A"),
                         woo_before |-> wc_get_product_images(wc, 5),
                         new_payload |-> r.new_payload, uploaded |-> r.uploaded,
                         unchanged |-> r.unchanged, media |-> r.media,
                         uploads |-> r.uploads, updates |-> r.updates]
    /\ UNCHANGED <<now, erp, seen, migrateVars, storeVars, passVars>>

\* a call whose fetch of the item's images is answered
SyncItemImagesCall == SyncItemImagesWith("ok")

\* a call made while the ERP does not answer the fetch of the item
SyncItemImagesFetchFails == SyncItemImagesWith("error")

\* the item's images are edited in the ERP; the report of the call before
\* the edit is let go
ErpSetImages ==
    /\ \E imgs \in ErpImageLists \ {erp.images["A"]} : erp' = ErpOfImages(imgs)
    /\ last' = Last0
    /\ UNCHANGED <<now, wc, next_id, images_map, seen,
                   migrateVars, storeVars, passVars>>

NextImages == SyncItemImagesCall \/ SyncItemImagesFetchFails \/ ErpSetImages

SpecImages == InitImages /\ [][NextImages]_vars

\* C19: in a call of sync_item_images, an ERP image whose URL has a map
\* record with the same hash and a media id that is in the product's
\* gallery is not uploaded, and the payload holds that media id at the
\* image's position.
C19_UnchangedImageReused ==
    last.pass = "sync_item_images" =>
        \A i \in 1..Len(last.erp_images) :
            LET erp_img == last.erp_images[i]
                prevs == RecordsOfUrl(last.map_before, erp_img.url)
                prev == last.map_before[Greatest(prevs)]
            IN  (/\ prevs # {}
                 /\ prev.v["sha256"] = PyStr(erp_img.sha256)
                 /\ prev.v["woo_media_id"].t = "num"
                 /\ prev.v["woo_media_id"].v \in Range(last.woo_before)) =>
                    /\ erp_img.url \notin Range(last.uploaded)
                    /\ [id |-> prev.v["woo_media_id"], position |-> i - 1]
                           \in Range(last.new_payload)

\* C20: after a call of sync_item_images that was not a dry run, the
\* product's gallery is the media ids of the ERP image list, in ERP order,
\* put there by one update.
C20_GalleryReplaced ==
    (last.pass = "sync_item_images" /\ ~last.dry_run) =>
        /\ wc_get_product_images(wc, last.wc_product_id) =
               [i \in 1..Len(last.erp_images) |-> last.media[i].v]
        /\ last.updates <= 1

\* the place of a URL's first occurrence in an ERP image list
FirstAt(erp_images, url) == Least({i \in 1..Len(erp_images) : erp_images[i].url = url})

\* C21: after a live call of sync_item_images the item's list in the image
\* map has exactly one record per distinct URL of the ERP image list, and
\* the records' positions are 0..n-1, rising in ERP order.
C21_OneRecordPerUrlDensePositions ==
    (last.pass = "sync_item_images" /\ ~last.dry_run) =>
        LET recs == get_images_for_item(images_map, last.erp_item_code)
            urls == {last.erp_images[i].url : i \in 1..Len(last.erp_images)}
            UrlOf(j) == recs[j].v["erp_url"].v
        IN  /\ Len(recs) = Cardinality(urls)
            /\ \A u \in urls : Cardinality(RecordsOfUrl(recs, u)) = 1
            /\ {recs[j].v["position"] : j \in 1..Len(recs)} =
                   {PyInt(k) : k \in 0..(Cardinality(urls) - 1)}
            /\ \A j, k \in 1..Len(recs) :
                  FirstAt(last.erp_images, UrlOf(j)) < FirstAt(last.erp_images, UrlOf(k))
                      => recs[j].v["position"].v < recs[k].v["position"].v

(***************************************************************************)
(* Rows against the two snapshots: overrides, scrub, the comparisons       *)
(***************************************************************************)
\* dict.get(key): None when the key is missing
Get(d, key) == IF key \in DOMAIN d.v THEN d.v[key] ELSE PyNone

\* the rows of a list whose erp_item_code is the given one
RowsOfCode(auto_rows, code) ==
    {i \in 1..Len(auto_rows) : Get(auto_rows[i], "erp_item_code") = PyStr(code)}

\* apply_overrides with the loop body never run: the rows as they were loaded
ApplyOverridesNone(auto_rows, overrides) == auto_rows

\* apply_overrides, lines 194-205: an override of an unknown code appends a
\* bare row; a forced id that is not None replaces the row's wc_product_id
RECURSIVE apply_overrides(_, _)
apply_overrides(auto_rows, overrides) ==
    IF overrides = << >> THEN auto_rows
    ELSE
      LET ov   == overrides[1]
          code == Get(ov, "erp_item_code")
          hits == IF code.t = "str" THEN RowsOfCode(auto_rows, code.v) ELSE {}
          rows == IF hits = {} THEN Append(auto_rows, PyDict([erp_item_code |-> code]))
                  ELSE auto_rows
          at   == IF hits = {} THEN Len(rows) ELSE Greatest(hits)
          forced == Get(ov, "forced_wc_product_id")
      IN  IF ~Truthy(code) THEN apply_overrides(auto_rows, Tail(overrides))
          ELSE apply_overrides(
                 IF forced # PyNone
                 THEN [rows EXCEPT ![at] = SetKey(@, "wc_product_id", forced)]
                 ELSE rows,
                 Tail(overrides))

\* wid in wc_by_id: the snapshot has a product with that id
IdInSnapshot(wid, wc_products) ==
    wid.t = "num" /\ ProductsById(wc_products, wid.v) # {}

\* wc_by_sku / wc_index: the products that carry the SKU; products with an
\* empty SKU are in neither index
ProductsBySku(wc_products, sku) ==
    {i \in 1..Len(wc_products) : wc_products[i].sku = sku /\ sku # ""}

\* wc_by_sku.get(sku): the last product listed with it
ProductOfSku(wc_products, sku) == wc_products[Greatest(ProductsBySku(wc_products, sku))]

\* the scrub leaves every row as it is
ScrubNothing(auto_rows, wc_products) == auto_rows

\* _scrub_stale_links (admin_routes lines 57-76): a row whose product id or
\* SKU is not in the snapshot loses it and becomes "unmatched"
scrub_stale_links(auto_rows, wc_products) ==
    [i \in 1..Len(auto_rows) |->
        LET r   == auto_rows[i]
            wid == Get(r, "wc_product_id")
            sku == Get(r, "wc_sku")
            stale_id  == Truthy(wid) /\ ~IdInSnapshot(wid, wc_products)
            stale_sku == Truthy(sku) /\
                         (sku.t # "str" \/ ProductsBySku(wc_products, sku.v) = {})
            r1 == IF stale_id
                  THEN SetKey(SetKey(r, "wc_product_id", PyNone), "status", PyStr("unmatched"))
                  ELSE r
        IN  IF stale_sku
            THEN SetKey(SetKey(r1, "wc_sku", PyNone), "status", PyStr("unmatched"))
            ELSE r1]

\* format_price: two decimals; the ERP prices of the model are whole numbers
format_price(price) == ToString(price) \o ".00"

\* map_erp_to_wc_product for an item the ERP lists by code only: the name
\* falls back to the code, the description is empty; price = 0 is None
map_erp_to_wc_product(item_code, price) ==
    [name |-> item_code, sku |-> item_code,
     regular_price |-> IF price = 0 THEN "0.00" ELSE format_price(price),
     description |-> "", short_description |-> ""]

\* compare.norm on the texts of the model: markup is dropped
norm(val) ==
    CASE val = "<b>A</b>" -> "A"
      [] val = "<b>B</b>" -> "B"
      [] OTHER -> val

\* compare._to_decimal on the price texts of the model, in thousandths;
\* -1 is None ("" or not a number)
to_decimal(v) ==
    CASE v = "10.00"  -> 10000
      [] v = "10.004" -> 10004
      [] v = "10.005" -> 10005
      [] v = "10.006" -> 10006
      [] v = "10.01"  -> 10010
      [] v = "9.996"  -> 9996
      [] v = "9.995"  -> 9995
      [] v = "9.994"  -> 9994
      [] v = "9.99"   -> 9990
      [] v = "9.00"   -> 9000
      [] v = "0.00"   -> 0
      [] OTHER -> -1

\* the prices are equal when their decimals are
PricesEqualExact(a, b) == to_decimal(a) = to_decimal(b)

\* compare.prices_equal with tol = 0.005
prices_equal(a, b) ==
    LET da == to_decimal(a)
        db == to_decimal(b)
        diff == IF da >= db THEN da - db ELSE db - da
    IN  IF da = -1 /\ db = -1 THEN TRUE
        ELSE IF da = -1 \/ db = -1 THEN FALSE
        ELSE diff <= 5

\* the text fields of FIELDS_TO_COMPARE
TextFields == {"name", "description", "short_description"}

\* compare.needs_update with PRICE_TOLERANCE_PCT = 0: prices_close is exact
\* equality, which prices_equal covers
needs_update(desired, current) ==
    \/ desired.regular_price # "" /\ ~prices_equal(desired.regular_price, current.regular_price)
    \/ \E f \in TextFields : norm(desired[f]) # norm(current[f])

(***************************************************************************)
(* The plan: generate_sync_preview's three sets                            *)
(***************************************************************************)
\* build_or_load_mapping when every file operation succeeds: a file that
\* is missing or holds a falsy value is replaced by freshly generated rows
LoadedMapping(file, wc_products, erp_items, clock) ==
    LET Loaded(doc) ==
            [auto |-> doc.v["auto"].v, overrides |-> doc.v["overrides"].v,
             images |-> IF "images" \in DOMAIN doc.v THEN doc.v["images"].v ELSE << >>,
             file |-> file]
        Generated(auto_rows) ==
            [auto |-> auto_rows, overrides |-> << >>, images |-> << >>,
             file |-> FileOf(json_dump(SavePayload(auto_rows, << >>, << >>, clock)))]
        Of(raw) ==
            IF Truthy(raw) THEN Loaded(migrate_if_needed(raw, clock))
            ELSE Generated(generate_auto_mapping(wc_products, erp_items))
    IN  Of(IF file = Absent THEN PyNone ELSE json_loads(file.text))

\* row["erp_item_code"]
CodeOf(row) == row.v["erp_item_code"].v

\* the codes of the chosen rows, in row order
RECURSIVE CodesAt(_, _, _)
CodesAt(auto_rows, at, i) ==
    IF i > Len(auto_rows) THEN << >>
    ELSE (IF i \in at THEN <<CodeOf(auto_rows[i])>> ELSE << >>) \o CodesAt(auto_rows, at, i + 1)

\* lines 130-137: a row goes to "create" when neither its code is a SKU of
\* the snapshot nor its wc_product_id is a product of the snapshot
NeedsCreate(row, wc_products) ==
    LET wid == Get(row, "wc_product_id") IN
    /\ ProductsBySku(wc_products, CodeOf(row)) = {}
    /\ ~(Truthy(wid) /\ IdInSnapshot(wid, wc_products))

PreviewCreate(auto_rows, wc_products) ==
    CodesAt(auto_rows, {i \in 1..Len(auto_rows) : NeedsCreate(auto_rows[i], wc_products)}, 1)

\* lines 140-149: the product a row is compared with, 0 when it has none;
\* the stored or forced id comes first, the SKU second
CandidateId(row, wc_products) ==
    LET wid == Get(row, "wc_product_id") IN
    IF Truthy(wid) /\ IdInSnapshot(wid, wc_products) THEN wid.v
    ELSE IF ProductsBySku(wc_products, CodeOf(row)) # {}
         THEN ProductOfSku(wc_products, CodeOf(row)).id
    ELSE 0

\* wc_by_id.get(id): the last product listed with the id
ProductOfId(wc_products, id) == wc_products[Greatest(ProductsById(wc_products, id))]

\* the price is compared whether the price list has one or not
ChangedFieldsWithPrice(desired, wc_p, price) ==
    {f \in TextFields : norm(desired[f]) # norm(wc_p[f])} \cup
    (IF ~prices_equal(desired.regular_price, wc_p.regular_price)
     THEN {"regular_price"} ELSE {})

\* lines 162-174: the fields whose desired value differs; the price is
\* left out when the price list has none for the item
changed_fields(desired, wc_p, price) ==
    {f \in TextFields : norm(desired[f]) # norm(wc_p[f])} \cup
    (IF price # 0 /\ ~(desired.regular_price = "" /\ wc_p.regular_price = "")
        /\ ~prices_equal(desired.regular_price, wc_p.regular_price)
     THEN {"regular_price"} ELSE {})

\* _images_changed, lines 63-92, with every fetch succeeding
images_changed(code, wc_product_id, imap, erp_images, wc_products) ==
    LET erp_urls == {erp_images[i].url : i \in 1..Len(erp_images)}
        mapped   == get_images_for_item(imap, code)
        mapped_urls == {mapped[i].v["erp_url"].v : i \in 1..Len(mapped)}
        PrevOf(url) == mapped[Greatest({i \in 1..Len(mapped) : mapped[i].v["erp_url"].v = url})]
        woo_ids  == Range(wc_get_product_images(wc_products, wc_product_id))
        mapped_ids == {Get(mapped[i], "woo_media_id") : i \in 1..Len(mapped)}
    IN  \/ erp_urls # {} /\ mapped = << >>
        \/ erp_urls # mapped_urls
        \/ \E i \in 1..Len(erp_images) :
              Get(PrevOf(erp_images[i].url), "sha256") # PyStr(erp_images[i].sha256)
        \/ \E m \in mapped_ids : Truthy(m) /\ ~(m.t = "num" /\ m.v \in woo_ids)

\* lines 151-187: a candidate goes to "update" when the ERP lists its code
\* and a field or the images differ
NeedsUpdatePreview(row, wc_products, erp_snap, imap) ==
    LET code  == CodeOf(row)
        wc_id == CandidateId(row, wc_products)
        desired == map_erp_to_wc_product(code, erp_snap.price[code])
    IN  /\ wc_id # 0
        /\ code \in Range(erp_snap.items)
        /\ \/ changed_fields(desired, ProductOfId(wc_products, wc_id), erp_snap.price[code]) # {}
           \/ images_changed(code, wc_id, imap, erp_snap.images[code], wc_products)

PreviewUpdate(auto_rows, wc_products, erp_snap, imap) ==
    IF wc_products = << >> THEN << >>
    ELSE CodesAt(auto_rows,
                 {i \in 1..Len(auto_rows) :
                     NeedsUpdatePreview(auto_rows[i], wc_products, erp_snap, imap)}, 1)

\* every product that carries a SKU is deleted
DeleteAll(wc_products, erp_items) ==
    {i \in 1..Len(wc_products) : wc_products[i].sku # ""}

\* lines 190-195 and bulk_delete lines 308-309: the products whose SKU is
\* not empty and is no ERP item code
DeleteSet(wc_products, erp_items) ==
    {i \in 1..Len(wc_products) :
        wc_products[i].sku # "" /\ wc_products[i].sku \notin Range(erp_items)}

\* the SKUs of the chosen products, in snapshot order
RECURSIVE SkusAt(_, _, _)
SkusAt(wc_products, at, i) ==
    IF i > Len(wc_products) THEN << >>
    ELSE (IF i \in at THEN <<wc_products[i].sku>> ELSE << >>) \o SkusAt(wc_products, at, i + 1)

PreviewDelete(wc_products, erp_items) ==
    SkusAt(wc_products, DeleteSet(wc_products, erp_items), 1)

(***************************************************************************)
(* The bulk passes, each from its snapshot to its final save               *)
(***************************************************************************)
\* get_fresh_data with every fetch succeeding: load, apply the overrides,
\* scrub against the snapshot, save when the scrub changed a row
get_fresh_data(file, wc_products, erp_snap, clock) ==
    LET Fresh(m, loaded, scrubbed) ==
            [loaded |-> loaded, auto_rows |-> scrubbed, overrides |-> m.overrides,
             images_map |-> m.images,
             file |-> IF scrubbed # loaded
                      THEN FileOf(json_dump(SavePayload(scrubbed, m.overrides, m.images, clock)))
                      ELSE m.file]
        Scrubbed(m, loaded) == Fresh(m, loaded, scrub_stale_links(loaded, wc_products))
        Overridden(m) == Scrubbed(m, apply_overrides(m.auto, m.overrides))
    IN  Overridden(LoadedMapping(file, wc_products, erp_snap.items, clock))

\* the row keeps its fields
RowUpdateNothing(row, kvs) == row

\* row.update({...}) with the given keys
RECURSIVE RowUpdate(_, _)
RowUpdate(row, kvs) ==
    IF kvs = << >> THEN row
    ELSE RowUpdate(SetKey(row, kvs[1][1], kvs[1][2]), Tail(kvs))

\* wc_force_delete_by_sku: no product of any status keeps the SKU
wc_force_delete_by_sku(wc_products, sku) ==
    SelectSeq(wc_products, LAMBDA p : p.sku # sku)

\* wc_delete("products/<id>") with force=true
wc_delete(wc_products, id) == SelectSeq(wc_products, LAMBDA p : p.id # id)

\* wc_update("products/<id>", desired): the product takes the payload's fields
wc_update(wc_products, id, desired) ==
    [i \in 1..Len(wc_products) |->
        IF wc_products[i].id = id
        THEN [wc_products[i] EXCEPT !.name = desired.name, !.sku = desired.sku,
                                   !.regular_price = desired.regular_price,
                                   !.description = desired.description,
                                   !.short_description = desired.short_description]
        ELSE wc_products[i]]

\* what the storefront answers to the calls of a pass: every call made
\* for a code of `codes` gets the listed answers, every other call succeeds
RemoteOk ==
    [codes |-> {}, erp_fetch |-> "ok", create |-> "ok", regenerate |-> TRUE,
     regenerate_raises |-> FALSE, retry |-> "ok",
     update |-> "ok", images |-> "ok", save |-> "ok"]

\* str(e) of the error behind an answer
MessageOf(answer) ==
    CASE answer = "dup"   -> "400 woocommerce_rest_product_not_created: already present in the lookup table"
      [] answer = "http"  -> "500 Server Error"
      [] answer = "error" -> "ConnectError"
      [] OTHER            -> ""

\* lines 204-205: the message names the duplicate-SKU lookup-table error
is_duplicate_sku(msg) == msg = MessageOf("dup")

\* the dict keeps its entries
DictKeep(d, key, val) == d

\* errors[code] = msg
DictSet(d, key, val) ==
    [k \in DOMAIN d \cup {key} |-> IF k = key THEN val ELSE d[k]]

\* the row is skipped only when it carries a link
SkipsLinkedOnly(row, code, wc_products) == Truthy(Get(row, "wc_product_id"))

\* lines 184-185: `if row.get("wc_product_id") or code in wc_index: continue`
SkipsCreate(row, code, wc_products) ==
    Truthy(Get(row, "wc_product_id")) \/ ProductsBySku(wc_products, code) # {}

\* bulk_create's loop, lines 181-243, from row i on; sync_item_images is
\* called outside the try of lines 202-230, its error leaves the function
RECURSIVE CreateLoop(_, _, _)
CreateLoop(cx, st, i) ==
    IF i > Len(st.auto_rows) \/ st.raised # "" THEN st
    ELSE
      LET row   == st.auto_rows[i]
          code  == CodeOf(row)
          price == cx.erp.price[code]
          payload == map_erp_to_wc_product(code, price)
          id    == st.next_id
          images == IF code \in cx.remote.codes THEN cx.remote.images ELSE "ok"
          first == IF code \in cx.remote.codes THEN cx.remote.create ELSE "ok"
          retry == IF code \in cx.remote.codes THEN cx.remote.retry ELSE "ok"
          freed == wc_force_delete_by_sku(st.wc, code)
          made  == Append(freed, Product(id, payload.sku, payload.name,
                                         payload.regular_price, << >>))
          row2  == RowUpdate(row, <<<<"wc_product_id", PyInt(id)>>,
                                    <<"wc_sku", PyStr(code)>>,
                                    <<"status", PyStr("created")>>,
                                    <<"last_price", PyInt(price)>>,
                                    <<"last_synced", now_iso(cx.clock)>>>>)
          Calls(kinds) == [k \in 1..Len(kinds) |-> <<kinds[k], code>>]
          Created(img, kinds) ==
              [st EXCEPT !.auto_rows[i] = row2,
                         !.attempted = Append(@, code),
                         !.done = Append(@, code),
                         !.calls = @ \o Calls(kinds),
                         !.wc = img.wc, !.next_id = img.next_id,
                         !.images_map = img.images_map]
          Create(kinds) ==
              IF images = "ok"
              THEN Created(sync_item_images(code, id, st.images_map, FALSE,
                                            cx.erp.images[code], made, id + 1, cx.clock),
                           kinds)
              ELSE [Created([wc |-> made, next_id |-> id + 1,
                             images_map |-> st.images_map], kinds)
                        EXCEPT !.raised = MessageOf(images)]
          Failed(msg, kinds) ==
              [st EXCEPT !.attempted = Append(@, code),
                         !.failed = Append(@, code),
                         !.errors = DictSet(@, code, msg),
                         !.calls = @ \o Calls(kinds),
                         !.wc = IF kinds = << >> THEN @ ELSE freed]
          Manual(msg, kinds) ==
              [st EXCEPT !.attempted = Append(@, code),
                         !.manual_delete = Append(@, code),
                         !.errors = DictSet(@, code, msg),
                         !.calls = @ \o Calls(kinds),
                         !.wc = freed]
          \* an exception raised inside the handler of lines 203-224 is caught
          \* by none of the try's clauses
          Aborted(msg, kinds) ==
              [st EXCEPT !.attempted = Append(@, code),
                         !.calls = @ \o Calls(kinds),
                         !.wc = freed,
                         !.raised = msg]
      IN  IF SkipsCreate(row, code, cx.wc_products)
          THEN CreateLoop(cx, st, i + 1)
          ELSE IF price = 0
          THEN CreateLoop(cx, Failed("No price found in pricelist", << >>), i + 1)
          ELSE IF first = "ok"
          THEN CreateLoop(cx, Create(<<"free", "create">>), i + 1)
          ELSE IF ~is_duplicate_sku(MessageOf(first))
          THEN CreateLoop(cx, Failed(MessageOf(first), <<"free", "create">>), i + 1)
          ELSE IF cx.remote.regenerate_raises
          THEN CreateLoop(cx, Aborted(MessageOf("error"),
                                      <<"free", "create", "free", "regenerate">>), i + 1)
          ELSE IF ~cx.remote.regenerate
          THEN CreateLoop(cx, Manual(MessageOf(first),
                                     <<"free", "create", "free", "regenerate">>), i + 1)
          ELSE IF retry = "ok"
          THEN CreateLoop(cx, Create(<<"free", "create", "free", "regenerate", "create">>),
                          i + 1)
          ELSE CreateLoop(cx, Manual(MessageOf(first),
                                     <<"free", "create", "free", "regenerate", "create">>),
                          i + 1)

\* the locals of a bulk pass before its loop
LoopStart(fresh, wc_products, nid) ==
    [auto_rows |-> fresh.auto_rows, images_map |-> fresh.images_map,
     wc |-> wc_products, next_id |-> nid,
     attempted |-> << >>, done |-> << >>, failed |-> << >>,
     manual_delete |-> << >>, errors |-> << >>, calls |-> << >>, raised |-> ""]

\* the snapshot a pass works from and the answers it will get
PassContext(wc_products, erp_snap, clock, remote) ==
    [wc_products |-> wc_products, erp |-> erp_snap, clock |-> clock, remote |-> remote]

\* a failed final save goes unnoticed
PassResultSwallow(fresh, st, clock, save) ==
    [fresh |-> fresh, st |-> st, raised |-> st.raised, file |-> fresh.file]

\* what a bulk pass leaves: the rows it loaded, its locals at the end, the
\* error that left the function if one did, the file after the final
\* save_mapping when it was reached and succeeded
PassResult(fresh, st, clock, save) ==
    [fresh |-> fresh, st |-> st,
     raised |-> IF st.raised # "" THEN st.raised ELSE MessageOf(save),
     file |-> IF st.raised = "" /\ save = "ok"
              THEN FileOf(json_dump(SavePayload(st.auto_rows, fresh.overrides,
                                                st.images_map, clock)))
              ELSE fresh.file]

\* bulk_create, lines 172-249
bulk_create(file, wc_products, erp_snap, nid, clock, remote) ==
    LET Run(fresh) ==
            PassResult(fresh, CreateLoop(PassContext(wc_products, erp_snap, clock, remote),
                                         LoopStart(fresh, wc_products, nid), 1), clock,
                       remote.save)
    IN  Run(get_fresh_data(file, wc_products, erp_snap, clock))

\* bulk_update's loop, lines 261-293, from row i on: the product is the one
\* the snapshot lists under the row's code as SKU; an error of wc_update or
\* of sync_item_images is caught at lines 285-292
RECURSIVE UpdateLoop(_, _, _)
UpdateLoop(cx, st, i) ==
    IF i > Len(st.auto_rows) THEN st
    ELSE
      LET row   == st.auto_rows[i]
          code  == CodeOf(row)
          wc_p  == ProductOfSku(cx.wc_products, code)
          price == cx.erp.price[code]
          desired == map_erp_to_wc_product(code, price)
          update == IF code \in cx.remote.codes THEN cx.remote.update ELSE "ok"
          images == IF code \in cx.remote.codes THEN cx.remote.images ELSE "ok"
          calls  == IF needs_update(desired, wc_p) THEN <<<<"update", code>>>> ELSE << >>
          pushed == IF needs_update(desired, wc_p) THEN wc_update(st.wc, wc_p.id, desired)
                    ELSE st.wc
          row2  == RowUpdate(row, <<<<"status", PyStr("updated")>>,
                                    <<"last_price", PyInt(price)>>,
                                    <<"last_synced", now_iso(cx.clock)>>>>)
          Updated(img) == [st EXCEPT !.auto_rows[i] = row2,
                                     !.attempted = Append(@, code),
                                     !.done = Append(@, code),
                                     !.calls = @ \o calls,
                                     !.wc = img.wc, !.next_id = img.next_id,
                                     !.images_map = img.images_map]
          Failed(msg, made, left) ==
              [st EXCEPT !.attempted = Append(@, code),
                         !.failed = Append(@, code),
                         !.errors = DictSet(@, code, msg),
                         !.calls = @ \o made,
                         !.wc = left]
      IN  IF ProductsBySku(cx.wc_products, code) = {}
          THEN UpdateLoop(cx, st, i + 1)
          ELSE IF price = 0
          THEN UpdateLoop(cx, Failed("No price found in pricelist", << >>, st.wc), i + 1)
          ELSE IF needs_update(desired, wc_p) /\ update # "ok"
          THEN UpdateLoop(cx, Failed(MessageOf(update), calls, st.wc), i + 1)
          ELSE IF images # "ok"
          THEN UpdateLoop(cx, Failed(MessageOf(images), calls, pushed), i + 1)
          ELSE UpdateLoop(cx, Updated(sync_item_images(code, wc_p.id, st.images_map, FALSE,
                                                       cx.erp.images[code], pushed,
                                                       st.next_id, cx.clock)), i + 1)

\* bulk_update, lines 252-296
bulk_update(file, wc_products, erp_snap, nid, clock, remote) ==
    LET Run(fresh) ==
            PassResult(fresh, UpdateLoop(PassContext(wc_products, erp_snap, clock, remote),
                                         LoopStart(fresh, wc_products, nid), 1), clock,
                       remote.save)
    IN  Run(get_fresh_data(file, wc_products, erp_snap, clock))

\* wc_index: for each SKU the last product listed with it
WcIndex(wc_products) ==
    {i \in 1..Len(wc_products) :
        wc_products[i].sku # "" /\ i = Greatest(ProductsBySku(wc_products, wc_products[i].sku))}

\* bulk_delete's loop, lines 307-319, from product i on; the storefront
\* refuses the deletion of the products in `refused`
RECURSIVE DeleteLoop(_, _, _)
DeleteLoop(cx, st, i) ==
    IF i > Len(cx.wc_products) THEN st
    ELSE
      LET wc_p == cx.wc_products[i] IN
      IF i \notin WcIndex(cx.wc_products) \cap DeleteSet(cx.wc_products, cx.erp.items)
      THEN DeleteLoop(cx, st, i + 1)
      ELSE IF wc_p.id \in cx.refused
      THEN DeleteLoop(cx, [st EXCEPT !.attempted = Append(@, wc_p.sku),
                                     !.failed = Append(@, wc_p.sku),
                                     !.errors = DictSet(@, wc_p.sku, MessageOf("http")),
                                     !.calls = Append(@, <<"delete", wc_p.sku>>)], i + 1)
      ELSE DeleteLoop(cx, [st EXCEPT !.attempted = Append(@, wc_p.sku),
                                     !.done = Append(@, wc_p.sku),
                                     !.calls = Append(@, <<"delete", wc_p.sku>>),
                                     !.wc = wc_delete(@, wc_p.id)], i + 1)

\* bulk_delete, lines 299-323
bulk_delete(file, wc_products, erp_snap, nid, clock, refused, save) ==
    LET Run(fresh) ==
            PassResult(fresh, DeleteLoop([wc_products |-> wc_products, erp |-> erp_snap,
                                          clock |-> clock, refused |-> refused],
                                         LoopStart(fresh, wc_products, nid), 1), clock, save)
    IN  Run(get_fresh_data(file, wc_products, erp_snap, clock))

(***************************************************************************)
(* Passes over one document, one ERP and one storefront.  The initial      *)
(* states stand for what users of the ERP and of the storefront did        *)
(* before; between the passes of a behaviour neither system changes from   *)
(* outside.                                                                *)
(***************************************************************************)
\* the ERP: its item codes in listing order, the price of each in the
\* default price list (0: none), the images of each
ErpSync(items, price, imgs) ==
    [items |-> items,
     price |-> [c \in Codes |-> IF c \in Range(items) THEN price[c] ELSE 0],
     images |-> [c \in Codes |-> IF c = "A" /\ c \in Range(items) THEN imgs ELSE << >>]]

\* item A with and without a price and an image; item B priced, no image
ErpSyncSnapshots ==
    {ErpSync(<< >>, [c \in Codes |-> 0], << >>),
     ErpSync(<<"A", "B">>, [c \in Codes |-> 10], << >>)} \cup
    {ErpSync(<<"A">>, [c \in Codes |-> price], imgs) :
        price \in {0, 10}, imgs \in {<< >>, <<ErpImage("u", "h1")>>}}

\* storefront products: in step with item A, renamed and priced
\* differently, one under another SKU, one without a SKU
SyncProducts ==
    {Product(5, "A", "A", "10.00", << >>), Product(5, "A", "<b>A</b>", "9.00", << >>),
     Product(7, "X", "old", "9.00", << >>), Product(6, "", "old", "9.00", << >>)}

\* the storefront lists its products by id; no two share an id or a SKU
Storefronts ==
    {w \in SeqUpTo(SyncProducts, MaxProducts) :
        \A i, j \in 1..Len(w) : i < j => w[i].id < w[j].id /\ w[i].sku # w[j].sku}

\* the documents an earlier run left behind: rows and overrides
SyncDocuments ==
    {<<r, << >>>> : r \in {<< >>, <<AutoRow("A", 0)>>, <<AutoRow("A", 5)>>, <<AutoRow("A", 7)>>}}
    \cup {<<<<AutoRow("A", 5)>>, <<OverrideRow("A", 7)>>>>,
          <<<<AutoRow("A", 5)>>, <<OverrideRow("B", 7)>>>>}
SyncFiles ==
    {Absent} \cup {FileOf(json_dump(SavePayload(d[1], d[2], << >>, 0))) : d \in SyncDocuments}

InitSync ==
    /\ now = 0 /\ MigrateIdle /\ PassIdle
    /\ pc = "idle" /\ op = Op0 /\ ret = Ret0
    /\ backup_file = Absent /\ tmp_file = Absent
    /\ mapping_file \in SyncFiles
    /\ erp \in ErpSyncSnapshots
    /\ wc \in Storefronts
    /\ next_id = 10
    /\ images_map = << >>
    /\ seen = {}
    /\ last = Last0

\* how far the run create, update, delete has come, and whether any of its
\* passes reported a failure
StageOf(l) == IF "stage" \in DOMAIN l THEN l.stage ELSE 0
CleanOf(l) == IF "clean" \in DOMAIN l THEN l.clean ELSE TRUE

\* what a bulk pass leaves behind
BulkResult(name, r, stage) ==
    [pass |-> name, stage |-> stage,
     clean |-> IF stage = 0 THEN TRUE
               ELSE (stage = 1 \/ CleanOf(last)) /\ r.st.failed = << >>,
     erp_items |-> erp.items, wc_before |-> wc,
     loaded |-> r.fresh.loaded, auto_rows |-> r.fresh.auto_rows,
     overrides |-> r.fresh.overrides,
     create |-> << >>, update |-> << >>, delete |-> << >>,
     attempted |-> r.st.attempted, done |-> r.st.done, failed |-> r.st.failed]

\* generate_sync_preview, lines 103-209, with both systems reachable
PreviewPass ==
    /\ next_id <= MaxMediaId
    /\ \E m \in {LoadedMapping(mapping_file, wc, erp.items, now)} :
       \E rows \in {apply_overrides(m.auto, m.overrides)} :
           /\ mapping_file' = m.file
           /\ last' = [pass |-> "preview", stage |-> StageOf(last), clean |-> CleanOf(last),
                       erp_items |-> erp.items, wc_before |-> wc,
                       loaded |-> rows, auto_rows |-> rows, overrides |-> m.overrides,
                       create |-> PreviewCreate(rows, wc),
                       update |-> PreviewUpdate(rows, wc, erp, m.images),
                       delete |-> PreviewDelete(wc, erp.items),
                       attempted |-> << >>, done |-> << >>, failed |-> << >>]
    /\ seen' = seen \cup Range(erp.items)
    /\ UNCHANGED <<now, erp, wc, next_id, images_map, backup_file, tmp_file, pc, op, ret,
                   migrateVars, passVars>>

\* what a bulk pass changes: the file, the storefront, the next free id
Applied(name, r, stage) ==
    /\ mapping_file' = r.file
    /\ wc' = r.st.wc
    /\ next_id' = r.st.next_id
    /\ last' = BulkResult(name, r, stage)
    /\ seen' = seen \cup Range(erp.items)
    /\ UNCHANGED <<now, erp, images_map, backup_file, tmp_file, pc, op, ret,
                   migrateVars, passVars>>

BulkCreatePass ==
    /\ next_id <= MaxMediaId
    /\ \E r \in {bulk_create(mapping_file, wc, erp, next_id, now, RemoteOk)} :
         Applied("bulk_create", r, 1)

BulkUpdatePass ==
    /\ next_id <= MaxMediaId
    /\ \E r \in {bulk_update(mapping_file, wc, erp, next_id, now, RemoteOk)} :
         Applied("bulk_update", r, IF StageOf(last) = 1 THEN 2 ELSE 0)

\* the storefront may refuse any of the deletions
BulkDeletePass ==
    /\ next_id <= MaxMediaId
    /\ \E refused \in SUBSET {wc[i].id : i \in DeleteSet(wc, erp.items)} :
       \E r \in {bulk_delete(mapping_file, wc, erp, next_id, now, refused, "ok")} :
         Applied("bulk_delete", r, IF StageOf(last) = 2 THEN 3 ELSE 0)

NextSync == PreviewPass \/ BulkCreatePass \/ BulkUpdatePass \/ BulkDeletePass
SpecSync == InitSync /\ [][NextSync]_vars

\* a pass of this specification has run
SyncPasses == {"preview", "bulk_create", "bulk_update", "bulk_delete"}

\* the ERP item codes of a pass's snapshot that have no valid link: no row
\* of the code holds a product id of the storefront snapshot, and no
\* product of the snapshot has the code as SKU
Unlinked(l) ==
    {c \in Range(l.erp_items) :
        /\ ProductsBySku(l.wc_before, c) = {}
        /\ \A i \in RowsOfCode(l.auto_rows, c) :
              ~IdInSnapshot(Get(l.auto_rows[i], "wc_product_id"), l.wc_before)}

\* C12: the create set of a preview, and the codes bulk_create attempts,
\* are exactly the ERP item codes of the snapshot that have no valid
\* linked storefront product, whatever document is persisted.
C12_CreateSetIsUnlinkedItems ==
    /\ last.pass = "preview" => Range(last.create) = Unlinked(last)
    /\ last.pass = "bulk_create" => Range(last.attempted) = Unlinked(last)

\* the rows of the persisted document
PersistedRows ==
    IF mapping_file = Absent THEN << >> ELSE json_loads(mapping_file.text).v["auto"].v

\* C13: after any sequence of passes the persisted rows hold exactly one
\* row for every ERP item code that a pass has seen in its ERP snapshot.
C13_OneRowPerSeenCode ==
    last.pass \in SyncPasses =>
        \A c \in seen : Cardinality(RowsOfCode(PersistedRows, c)) = 1

\* the rows of a pass whose stored or forced product id is a product of
\* the snapshot, for an item the ERP lists with a price
ValidLinks(l) ==
    {i \in 1..Len(l.auto_rows) :
        /\ IdInSnapshot(Get(l.auto_rows[i], "wc_product_id"), l.wc_before)
        /\ CodeOf(l.auto_rows[i]) \in Range(l.erp_items)
        /\ erp.price[CodeOf(l.auto_rows[i])] # 0}

\* C14: a stored or forced wc_product_id present in the snapshot takes
\* precedence over SKU matching: the preview compares the item with that
\* product, and bulk_update leaves that product in step with the item,
\* whether or not any product's SKU is the item code.
C14_LinkedIdTakesPrecedence ==
    /\ last.pass = "preview" =>
          \A i \in ValidLinks(last) :
             LET row == last.auto_rows[i]
                 wc_p == ProductOfId(last.wc_before, Get(row, "wc_product_id").v)
             IN  needs_update(map_erp_to_wc_product(CodeOf(row), erp.price[CodeOf(row)]), wc_p)
                    => CodeOf(row) \in Range(last.update)
    /\ last.pass = "bulk_update" =>
          \A i \in ValidLinks(last) :
             LET row == last.auto_rows[i]
                 id  == Get(row, "wc_product_id").v
             IN  /\ ProductsById(wc, id) # {}
                 /\ ~needs_update(map_erp_to_wc_product(CodeOf(row), erp.price[CodeOf(row)]),
                                  ProductOfId(wc, id))

\* the codes of a pass's overrides that its ERP snapshot does not list
OverrideOnlyCodes(l) ==
    {Get(l.overrides[i], "erp_item_code").v : i \in 1..Len(l.overrides)} \ Range(l.erp_items)

\* C16: an item code that is in the overrides but not in the ERP snapshot
\* is in neither the create set nor the update set of a preview.
C16_OverrideOnlyCodeNotPlanned ==
    last.pass = "preview" =>
        \A c \in OverrideOnlyCodes(last) :
            c \notin Range(last.create) /\ c \notin Range(last.update)

\* C18: a preview taken after a run of bulk_create, bulk_update and
\* bulk_delete in which no pass reported a failure, with neither system
\* changed from outside, has an empty create, update and delete set.
C18_SecondRunIsEmpty ==
    (last.pass = "preview" /\ last.stage = 3 /\ last.clean) =>
        last.create = << >> /\ last.update = << >> /\ last.delete = << >>

\* the SKUs of a snapshot's products that carry a SKU which is no ERP
\* item code of the pass
OrphanSkus(l) ==
    {l.wc_before[i].sku : i \in {j \in 1..Len(l.wc_before) :
        l.wc_before[j].sku # "" /\ l.wc_before[j].sku \notin Range(l.erp_items)}}

\* C15: the delete set of a preview, and the products bulk_delete goes
\* for, are exactly the snapshot's products whose SKU is not a current ERP
\* item code: each of them is deleted (or reported as failed when the
\* storefront refuses), and every other product stays.
C15_DeleteSetIsOrphans ==
    /\ last.pass = "preview" => Range(last.delete) = OrphanSkus(last)
    /\ last.pass = "bulk_delete" =>
          /\ Range(last.attempted) = OrphanSkus(last)
          /\ Range(last.done) \cup Range(last.failed) = OrphanSkus(last)
          /\ Range(last.done) \cap Range(last.failed) = {}
          /\ wc = SelectSeq(last.wc_before, LAMBDA p : p.sku \notin Range(last.done))

\* bulk_delete removed a product while a product of an ERP item stayed
C15_Witness ==
    /\ last.pass = "bulk_delete" /\ last.done # << >>
    /\ \E i \in 1..Len(wc) : wc[i].sku \in Range(last.erp_items)

\* a row as loaded points at a product id the snapshot does not have
StaleId(row, wc_products) ==
    Truthy(Get(row, "wc_product_id")) /\ ~IdInSnapshot(Get(row, "wc_product_id"), wc_products)

\* C17: after the scrub of a bulk pass every row whose wc_product_id was
\* not in the snapshot has wc_product_id null and status 'unmatched',
\* every wc_product_id that is left is a product of the snapshot, and a
\* scrubbed item without a SKU match is in the create set of the plan
\* made from the scrubbed rows and among the codes bulk_create attempts.
C17_StaleLinksScrubbed ==
    last.pass \in {"bulk_create", "bulk_update", "bulk_delete"} =>
        /\ Len(last.auto_rows) = Len(last.loaded)
        /\ \A i \in 1..Len(last.loaded) :
              LET before == last.loaded[i]
                  after  == last.auto_rows[i]
                  code   == CodeOf(before)
              IN  /\ StaleId(before, last.wc_before) =>
                        /\ Get(after, "wc_product_id") = PyNone
                        /\ Get(after, "status") = PyStr("unmatched")
                  /\ Truthy(Get(after, "wc_product_id")) =>
                        IdInSnapshot(Get(after, "wc_product_id"), last.wc_before)
                  /\ (StaleId(before, last.wc_before) /\ ProductsBySku(last.wc_before, code) = {}) =>
                        /\ code \in Range(PreviewCreate(last.auto_rows, last.wc_before))
                        /\ last.pass = "bulk_create" => code \in Range(last.attempted)

\* bulk_create scrubbed a stale link and then created the item's product
C17_Witness ==
    /\ last.pass = "bulk_create"
    /\ \E i \in 1..Len(last.loaded) :
          /\ StaleId(last.loaded[i], last.wc_before)
          /\ CodeOf(last.loaded[i]) \in Range(last.done)

(***************************************************************************)
(* Dry runs: calls of sync_item_images, live and dry, and previews, over   *)
(* one item and its product                                                *)
(***************************************************************************)
NextDryRun == SyncItemImagesCall \/ ErpSetImages \/ PreviewPass
SpecDryRun == InitImages /\ [][NextDryRun]_vars

\* C22: a dry run of sync_item_images uploads no media and sends no
\* gallery update, and a preview creates, updates and deletes nothing:
\* the storefront is as before; the dry run reports the same images as
\* uploaded and as unchanged as a live call from the same state.
C22_DryRunLeavesStorefront ==
    [][/\ (last'.pass = "sync_item_images" /\ last'.dry_run) =>
             /\ wc' = wc /\ next_id' = next_id
             /\ last'.uploads = 0 /\ last'.updates = 0
             /\ \E live \in {sync_item_images(last'.erp_item_code, last'.wc_product_id,
                                              images_map, FALSE, last'.erp_images,
                                              wc, next_id, now)} :
                   live.uploaded = last'.uploaded /\ live.unchanged = last'.unchanged
       /\ last'.pass = "preview" => (wc' = wc /\ next_id' = next_id)]_vars

\* a dry run found images to upload
C22_Witness ==
    last.pass = "sync_item_images" /\ last.dry_run /\ last.uploaded # << >>

(***************************************************************************)
(* Passes whose calls may fail.  The storefront answers the calls made for *)
(* one item code with an error; the final save may fail too.               *)
(***************************************************************************)
\* the passes of one behaviour
MaxPasses == 1
PassesOf(l) == IF "passes" \in DOMAIN l THEN l.passes ELSE 0

\* item A priced or not, with an image or not, alone or followed by item B
ErpFaultSnapshots == {e \in ErpSyncSnapshots : e.items # << >>}

\* nothing, a product to update, a product to delete, both
FaultStorefronts ==
    {<< >>, <<Product(5, "A", "<b>A</b>", "9.00", << >>)>>,
     <<Product(7, "X", "old", "9.00", << >>)>>,
     <<Product(5, "A", "<b>A</b>", "9.00", << >>), Product(7, "X", "old", "9.00", << >>)>>}

\* no document yet, or one an earlier pass wrote: item A linked or not
FaultFiles ==
    {Absent} \cup {FileOf(json_dump(SavePayload(<<AutoRow("A", id)>>, << >>, << >>, 0))) :
                      id \in {0, 5}}

InitFaults ==
    /\ now = 0 /\ MigrateIdle /\ PassIdle
    /\ pc = "idle" /\ op = Op0 /\ ret = Ret0
    /\ backup_file = Absent /\ tmp_file = Absent
    /\ mapping_file \in FaultFiles
    /\ erp \in ErpFaultSnapshots
    /\ wc \in FaultStorefronts
    /\ next_id = 10
    /\ images_map = << >>
    /\ seen = {}
    /\ last = Last0

\* the answers of the two regeneration endpoints: done, an HTTP error
\* status, or a request that failed on the network
EndpointAnswers == {"ok", "http", "error"}

\* the module-level flag _lookup_table_supported: None, True or False
SupportFlags == {"None", "True", "False"}

\* wc_regenerate_lookup_table(), lines 167-212, with the flag as it is at
\* the call and the answers of the two endpoints: the first try catches
\* HTTPStatusError only, the second any exception
wc_regenerate_lookup_table(supported, new_answer, old_answer) ==
    IF supported = "False" THEN [result |-> "False", supported |-> "False"]
    ELSE IF new_answer = "ok" THEN [result |-> "True", supported |-> "True"]
    ELSE IF new_answer = "error" THEN [result |-> "raised", supported |-> supported]
    ELSE IF old_answer = "ok" THEN [result |-> "True", supported |-> "True"]
    ELSE [result |-> "False", supported |-> "False"]

\* the outcomes a call of wc_regenerate_lookup_table can have
RegenerateResults ==
    {wc_regenerate_lookup_table(s, a, b).result :
        s \in SupportFlags, a \in EndpointAnswers, b \in EndpointAnswers}

\* the answers a bulk_create pass can get for the codes of `codes`
CreateRemotes ==
    {r \in [codes : {{"A"}}, erp_fetch : {"ok"}, create : {"ok", "dup", "http", "error"},
            regenerate : BOOLEAN, regenerate_raises : BOOLEAN,
            retry : {"ok", "error"}, update : {"ok"},
            images : {"ok", "error"}, save : {"ok", "error"}] :
        /\ (IF r.regenerate_raises THEN "raised"
            ELSE IF r.regenerate THEN "True" ELSE "False") \in RegenerateResults
        /\ r.regenerate_raises => r.create = "dup" /\ ~r.regenerate
        /\ r.create # "dup" => r.regenerate /\ r.retry = "ok"
        /\ ~r.regenerate => r.retry = "ok"
        /\ (r.create \in {"http", "error"} \/ ~r.regenerate \/ r.retry # "ok")
               => r.images = "ok"
        /\ r.regenerate_raises => r.save = "ok"}

\* the answers a bulk_update pass can get
UpdateRemotes ==
    [codes : {{"A"}}, erp_fetch : {"ok"}, create : {"ok"},
     regenerate : {TRUE}, regenerate_raises : {FALSE},
     retry : {"ok"}, update : {"ok", "http", "error"}, images : {"ok", "error"}, save : {"ok", "error"}]

\* a result with failed items is answered as an error
ResponseErrorOnFailure(name, r) ==
    IF r.raised # "" \/ r.st.failed # << >> THEN [status |-> 500, detail |-> r.raised]
    ELSE [status |-> 200, done |-> r.st.done, failed |-> r.st.failed,
          manual_delete |-> r.st.manual_delete, errors |-> r.st.errors]

\* what the caller of a bulk endpoint receives: the handler's dict, or the
\* server's answer to the error that left the handler
Response(name, r) ==
    IF r.raised # "" THEN [status |-> 500, detail |-> r.raised]
    ELSE [status |-> 200, done |-> r.st.done, failed |-> r.st.failed,
          manual_delete |-> r.st.manual_delete, errors |-> r.st.errors]

\* what a pass with failing calls leaves behind
FaultResult(name, r, remote) ==
    [pass |-> name, passes |-> PassesOf(last) + 1, remote |-> remote,
     erp |-> erp, wc_before |-> wc, file_before |-> mapping_file,
     file_fresh |-> r.fresh.file,
     rows_before |-> r.fresh.auto_rows, rows_after |-> r.st.auto_rows,
     attempted |-> r.st.attempted, done |-> r.st.done, failed |-> r.st.failed,
     manual_delete |-> r.st.manual_delete, errors |-> r.st.errors,
     calls |-> r.st.calls, raised |-> r.raised, response |-> Response(name, r)]

FaultApplied(name, r, remote) ==
    /\ mapping_file' = r.file
    /\ wc' = r.st.wc
    /\ next_id' = r.st.next_id
    /\ last' = FaultResult(name, r, remote)
    /\ seen' = seen \cup Range(erp.items)
    /\ UNCHANGED <<now, erp, images_map, backup_file, tmp_file, pc, op, ret,
                   migrateVars, passVars>>

FaultyCreatePass ==
    /\ next_id <= MaxMediaId /\ PassesOf(last) < MaxPasses
    /\ \E remote \in CreateRemotes :
       \E r \in {bulk_create(mapping_file, wc, erp, next_id, now, remote)} :
         FaultApplied("bulk_create", r, remote)

FaultyUpdatePass ==
    /\ next_id <= MaxMediaId /\ PassesOf(last) < MaxPasses
    /\ \E remote \in UpdateRemotes :
       \E r \in {bulk_update(mapping_file, wc, erp, next_id, now, remote)} :
         FaultApplied("bulk_update", r, remote)

\* get_erpnext_items(), lines 22-38: the ERP's items, or [] when the request
\* or its decoding raised
get_erpnext_items(erp_snap, answer) ==
    IF answer = "ok" THEN erp_snap
    ELSE ErpSync(<< >>, [c \in Codes |-> 0], << >>)

FaultyDeletePass ==
    /\ next_id <= MaxMediaId /\ PassesOf(last) < MaxPasses
    /\ \E erp_fetch \in {"ok", "error"} :
       \E fetched \in {get_erpnext_items(erp, erp_fetch)} :
       \E refused \in SUBSET {wc[i].id : i \in DeleteSet(wc, fetched.items)} :
       \E save \in {"ok", "error"} :
       \E r \in {bulk_delete(mapping_file, wc, fetched, next_id, now, refused, save)} :
         FaultApplied("bulk_delete", r,
                      [RemoteOk EXCEPT !.save = save, !.erp_fetch = erp_fetch])

\* product_sync.sync_products and sync_products_bulk, lines 31-33 and
\* 132-134: get_wc_products() is not awaited and build_or_load_mapping
\* returns three values for two names, so with no file the iteration over
\* the coroutine raises in generate_auto_mapping and with a file the
\* unpacking raises; the error leaves the function before its loops
sync_products(file, wc_products, erp_snap, nid, clock) ==
    LET Left(fresh) ==
            [fresh |-> fresh, st |-> LoopStart(fresh, wc_products, nid),
             raised |-> IF file = Absent THEN "TypeError" ELSE "ValueError",
             file |-> fresh.file]
    IN  IF file = Absent
        THEN Left([auto_rows |-> << >>, images_map |-> << >>, file |-> file])
        ELSE Left([auto_rows |-> << >>, images_map |-> << >>,
                   file |-> LoadedMapping(file, wc_products, erp_snap.items, clock).file])

FullSyncPass ==
    /\ next_id <= MaxMediaId /\ PassesOf(last) < MaxPasses
    /\ \E entry \in {"sync_products", "sync_products_bulk"} :
       \E r \in {sync_products(mapping_file, wc, erp, next_id, now)} :
         FaultApplied(entry, r, RemoteOk)

\* reasons["update"], lines 181-187: for each code of the update set the
\* fields that differ, from the last of its rows that is listed
PreviewReasons(auto_rows, wc_products, erp_snap, imap) ==
    LET Listed(c) == {i \in RowsOfCode(auto_rows, c) :
                        wc_products # << >>
                        /\ NeedsUpdatePreview(auto_rows[i], wc_products, erp_snap, imap)}
        Fields(row, c) ==
            changed_fields(map_erp_to_wc_product(c, erp_snap.price[c]),
                           ProductOfId(wc_products, CandidateId(row, wc_products)),
                           erp_snap.price[c])
    IN  [c \in {x \in Codes : Listed(x) # {}} |-> Fields(auto_rows[Greatest(Listed(c))], c)]

\* generate_sync_preview, lines 103-209, with the storefront reachable and
\* the ERP's item list fetched or not
PlanPass ==
    /\ next_id <= MaxMediaId /\ PassesOf(last) < MaxPasses
    /\ \E erp_fetch \in {"ok", "error"} :
       \E fetched \in {get_erpnext_items(erp, erp_fetch)} :
       \E m \in {LoadedMapping(mapping_file, wc, fetched.items, now)} :
       \E rows \in {apply_overrides(m.auto, m.overrides)} :
           /\ mapping_file' = m.file
           /\ last' = [pass |-> "preview", passes |-> PassesOf(last) + 1,
                       erp_fetch |-> erp_fetch,
                       erp |-> erp, wc_before |-> wc, rows_before |-> rows,
                       create |-> PreviewCreate(rows, wc),
                       update |-> PreviewUpdate(rows, wc, fetched, m.images),
                       delete |-> PreviewDelete(wc, fetched.items),
                       reasons |-> PreviewReasons(rows, wc, fetched, m.images)]
    /\ seen' = seen \cup Range(erp.items)
    /\ UNCHANGED <<now, erp, wc, next_id, images_map, backup_file, tmp_file, pc, op, ret,
                   migrateVars, passVars>>

\* a call of wc_regenerate_lookup_table with the flag at None, True or False
RegenerateCall ==
    /\ PassesOf(last) < MaxPasses
    /\ \E supported \in SupportFlags, new_answer \in EndpointAnswers,
          old_answer \in EndpointAnswers :
         \E r \in {wc_regenerate_lookup_table(supported, new_answer, old_answer)} :
           last' = [pass |-> "wc_regenerate_lookup_table", passes |-> PassesOf(last) + 1,
                    supported_before |-> supported,
                    new_answer |-> new_answer, old_answer |-> old_answer,
                    result |-> r.result, supported |-> r.supported]
    /\ UNCHANGED <<now, erp, wc, next_id, images_map, seen, storeVars, migrateVars, passVars>>

NextFaults ==
    \/ FaultyCreatePass \/ FaultyUpdatePass \/ FaultyDeletePass \/ FullSyncPass \/ PlanPass
    \/ RegenerateCall
SpecFaults == InitFaults /\ [][NextFaults]_vars

\* the calls a pass made for a code, in order
RECURSIVE CallsFor(_, _)
CallsFor(calls, code) ==
    IF calls = << >> THEN << >>
    ELSE IF calls[1][2] = code THEN <<calls[1][1]>> \o CallsFor(Tail(calls), code)
    ELSE CallsFor(Tail(calls), code)

\* a pass of bulk_create whose first create for code c was rejected with
\* the duplicate-SKU lookup-table error
FirstCreateRejectedAsDuplicate(l, c) ==
    /\ l.pass = "bulk_create"
    /\ c \in l.remote.codes /\ l.remote.create = "dup"
    /\ Len(CallsFor(l.calls, c)) >= 2

\* C23: in bulk_create a create rejected with the duplicate-SKU lookup-table
\* error is followed by the force delete, the lookup-table regeneration and
\* exactly one retry of the create; a code whose retry fails too is reported
\* for manual deletion; no code gets more than two create calls in a pass
C23_RecoveryRetriesOnce ==
    "remote" \in DOMAIN last =>
        /\ \A c \in Codes :
               Cardinality({k \in 1..Len(last.calls) :
                               last.calls[k] = <<"create", c>>}) <= 2
        /\ \A c \in Codes :
               FirstCreateRejectedAsDuplicate(last, c) =>
                   /\ CallsFor(last.calls, c)
                          = <<"free", "create", "free", "regenerate", "create">>
                   /\ last.remote.retry # "ok" => c \in Range(last.manual_delete)

\* a bulk_create or bulk_update pass that returned its result
ReturnedPass(l) ==
    "remote" \in DOMAIN l /\ l.pass \in {"bulk_create", "bulk_update"} /\ l.raised = ""

\* the row of a code whose create or update succeeded carries the outcome
RowCarriesOutcome(l, row, status) ==
    /\ Get(row, "status") = PyStr(status)
    /\ Get(row, "last_price") = PyInt(l.erp.price[CodeOf(row)])
    /\ Get(row, "last_synced") = now_iso(now)

\* C24 as stated: after bulk_create and bulk_update the row of every code
\* whose create or update succeeded holds the id of the product created or
\* updated, the new status, last_price and last_synced, and the row of
\* every other code is the row the pass loaded
C24_RowsUpdatedOnSuccess ==
    ReturnedPass(last) =>
        /\ Len(last.rows_after) = Len(last.rows_before)
        /\ \A i \in 1..Len(last.rows_after) :
             LET row == last.rows_after[i]
                 c   == CodeOf(row)
             IN  IF c \in Range(last.done)
                 THEN /\ RowCarriesOutcome(last, row, IF last.pass = "bulk_create"
                                                      THEN "created" ELSE "updated")
                      /\ Get(row, "wc_product_id") = PyInt(ProductOfSku(wc, c).id)
                 ELSE row = last.rows_before[i]

\* C24 amended: the product id is written by bulk_create only; bulk_update
\* writes status, last_price and last_synced and leaves wc_product_id as
\* loaded; the row of every code that failed is the row the pass loaded;
\* these are the rows the final save wrote
C24_RowsFollowOutcome ==
    ReturnedPass(last) =>
        /\ Len(last.rows_after) = Len(last.rows_before)
        /\ PersistedRows = last.rows_after
        /\ \A i \in 1..Len(last.rows_after) :
             LET row == last.rows_after[i]
                 c   == CodeOf(row)
             IN  IF c \notin Range(last.done) THEN row = last.rows_before[i]
                 ELSE IF last.pass = "bulk_create"
                 THEN /\ RowCarriesOutcome(last, row, "created")
                      /\ Get(row, "wc_product_id") = PyInt(ProductOfSku(wc, c).id)
                 ELSE /\ RowCarriesOutcome(last, row, "updated")
                      /\ Get(row, "wc_product_id")
                             = Get(last.rows_before[i], "wc_product_id")

\* a pass that created one code's product and failed for another
C24_Witness ==
    /\ ReturnedPass(last)
    /\ last.done # << >>
    /\ last.failed \o last.manual_delete # << >>

\* the message of the failure that a pass met for a code
FailureOf(l, c) ==
    IF l.pass # "bulk_delete" /\ l.erp.price[c] = 0 THEN "No price found in pricelist"
    ELSE IF l.pass = "bulk_create" THEN MessageOf(l.remote.create)
    ELSE IF l.pass = "bulk_delete" THEN MessageOf("http")
    ELSE IF l.remote.update # "ok" /\ <<"update", c>> \in Range(l.calls)
    THEN MessageOf(l.remote.update)
    ELSE MessageOf(l.remote.images)

Unpriced(l) == {c \in Range(l.erp.items) : l.erp.price[c] = 0}

\* the products that carry a SKU
ProductsOf(wc_products, sku) == {p \in Range(wc_products) : p.sku = sku}

\* C28: an ERP item without a price gets no storefront call in bulk_create
\* and bulk_update, so no product is created for it and its product is not
\* updated; the result of the pass that reached it lists it as failed with
\* the message "No price found in pricelist"; the preview never names the
\* price among the changed fields of such an item
C28_UnpricedNeverActedOn ==
    /\ ("remote" \in DOMAIN last /\ last.pass \in {"bulk_create", "bulk_update"}) =>
         \A c \in Unpriced(last) :
             /\ \A k \in 1..Len(last.calls) : last.calls[k][2] # c
             /\ ProductsOf(wc, c) = ProductsOf(last.wc_before, c)
             /\ c \notin Range(last.done)
             /\ (/\ last.response.status = 200
                 /\ RowsOfCode(last.rows_before, c) # {}
                 /\ IF last.pass = "bulk_update"
                    THEN ProductsBySku(last.wc_before, c) # {}
                    ELSE /\ ProductsBySku(last.wc_before, c) = {}
                         /\ \E i \in RowsOfCode(last.rows_before, c) :
                                ~Truthy(Get(last.rows_before[i], "wc_product_id")))
                => /\ c \in Range(last.response.failed)
                   /\ last.response.errors[c] = "No price found in pricelist"
    /\ (last.pass = "preview" /\ "reasons" \in DOMAIN last) =>
         \A c \in Unpriced(last) \cap DOMAIN last.reasons :
             "regular_price" \notin last.reasons[c]

\* bulk_update met item A without a price while its product's price
\* differs from every price
C28_Witness ==
    /\ "remote" \in DOMAIN last
    /\ last.pass = "bulk_update"
    /\ last.raised = ""
    /\ "A" \in Unpriced(last)
    /\ "A" \in Range(last.response.failed)
    /\ ProductsOf(wc, "A") # {}

(***************************************************************************)
(* The comparison of a desired payload with a storefront product, and the  *)
(* generation of rows, applied to inputs of their own                      *)
(***************************************************************************)
\* the longest ERP item list rows are generated from
MaxAutoItems == 2

\* the price texts compared: none, not a number, and decimals around 10.00
PriceTexts ==
    {"", "n/a", "0.00", "9.00", "9.99", "9.994", "9.995", "9.996",
     "10.00", "10.004", "10.005", "10.006", "10.01"}

InitCompare ==
    /\ now = 0 /\ MigrateIdle /\ PassIdle /\ StoreIdle /\ SyncIdle
    /\ last = Last0

\* prices_equal(a, b), and needs_update of a payload priced a against a
\* product priced b whose name is the payload's or not
Compare ==
    /\ \E a \in PriceTexts, b \in PriceTexts, name \in {"A", "<b>A</b>", "old"} :
         \E desired \in {[map_erp_to_wc_product("A", 10) EXCEPT !.regular_price = a]} :
         \E current \in {Product(5, "A", name, b, << >>)} :
           last' = [pass |-> "compare", a |-> a, b |-> b,
                    desired |-> desired, current |-> current,
                    equal |-> prices_equal(a, b),
                    flagged |-> needs_update(desired, current)]
    /\ UNCHANGED <<now, migrateVars, storeVars, passVars, erp, wc, next_id, images_map, seen>>

\* the ERP item lists and the storefront listings rows are generated from:
\* codes with and without a product, in either order and repeated;
\* products with and without a SKU, and two under one SKU
AutoMappingItems == SeqUpTo({"A", "B", "X"}, MaxAutoItems)
AutoMappingProducts ==
    Storefronts \cup {<<Product(5, "A", "A", "10.00", << >>),
                        Product(8, "A", "old", "9.00", << >>)>>}

\* generate_auto_mapping(wc_products, erp_items)
GenerateAutoMapping ==
    /\ \E wc_products \in AutoMappingProducts, erp_items \in AutoMappingItems :
         last' = [pass |-> "generate_auto_mapping",
                  wc_products |-> wc_products, erp_items |-> erp_items,
                  rows |-> generate_auto_mapping(wc_products, erp_items)]
    /\ UNCHANGED <<now, migrateVars, storeVars, passVars, erp, wc, next_id, images_map, seen>>

\* the rows and overrides apply_overrides is called with: rows of a code with
\* and without a product, two rows of one code; overrides of a code with and
\* without a row, two of one code, one whose forced id is None, one with no code
ApplyRows == SeqUpTo({AutoRow("A", 0), AutoRow("A", 5), AutoRow("B", 5)}, MaxAutoItems)
ApplyOverrideRows ==
    LET Rows == {OverrideRow("A", 7), OverrideRow("A", 9), OverrideRow("X", 7),
                 PyDict([erp_item_code |-> PyStr("B"), forced_wc_product_id |-> PyNone]),
                 PyDict([erp_item_code |-> PyStr(""), forced_wc_product_id |-> PyInt(7)])}
    IN  {<< >>} \cup {<<a>> : a \in Rows} \cup {<<a, b>> : a, b \in Rows}

\* the rows and overrides of a loaded document, before the overrides are applied
InitOverrides ==
    /\ now = 0 /\ MigrateIdle /\ PassIdle /\ StoreIdle
    /\ erp = << >> /\ wc = << >> /\ next_id = 0 /\ images_map = << >> /\ seen = {}
    /\ \E auto_rows \in ApplyRows, overrides \in ApplyOverrideRows :
         last = [pass |-> "loaded", auto_rows |-> auto_rows, overrides |-> overrides]

\* apply_overrides(auto_rows, overrides) on the rows of a loaded document;
\* the function writes no file
ApplyOverrides ==
    /\ last.pass = "loaded"
    /\ last' = [pass |-> "apply_overrides",
                auto_rows |-> last.auto_rows, overrides |-> last.overrides,
                rows |-> apply_overrides(last.auto_rows, last.overrides)]
    /\ UNCHANGED <<now, migrateVars, storeVars, passVars, erp, wc, next_id, images_map, seen>>

NextOverrides == ApplyOverrides
SpecOverrides == InitOverrides /\ [][NextOverrides]_vars

NextCompare == Compare \/ GenerateAutoMapping
SpecCompare == InitCompare /\ [][NextCompare]_vars

\* |x - y| of two decimals in thousandths
AbsDiff(x, y) == IF x >= y THEN x - y ELSE y - x

\* C29: two prices that are numbers are equal exactly when they differ by
\* at most 0.005: 10.00 against 10.004 is equal and does not make
\* needs_update true, 10.00 against 10.01 is not equal and does; a payload
\* whose price is unset never makes needs_update true on account of the
\* price
C29_PricesEqualWithinTolerance ==
    last.pass = "compare" =>
        LET da == to_decimal(last.a)
            db == to_decimal(last.b)
            texts == \E f \in TextFields : norm(last.desired[f]) # norm(last.current[f])
        IN  /\ (da # -1 /\ db # -1) => (last.equal <=> AbsDiff(da, db) <= 5)
            /\ (da = -1 /\ db = -1) => last.equal
            /\ (da = -1) # (db = -1) => ~last.equal
            /\ (last.a = "10.00" /\ last.b = "10.004") => last.equal /\ (last.flagged <=> texts)
            /\ (last.a = "10.00" /\ last.b = "10.01") => ~last.equal /\ last.flagged
            /\ last.a # "" => (last.flagged <=> (texts \/ ~last.equal))
            /\ last.a = "" => (last.flagged <=> texts)

\* 10.00 against 10.004 with equal texts: inside the tolerance, not flagged
C29_Witness ==
    /\ last.pass = "compare"
    /\ last.a = "10.00" /\ last.b = "10.004"
    /\ last.equal /\ ~last.flagged

\* C30: generate_auto_mapping returns one row per ERP item, in the order
\* of the ERP list; the row of a code that is the SKU of a product holds
\* the id of a product with that SKU and the status "matched", the row of
\* any other code holds no id and the status "missing_wc"
C30_AutoMappingFollowsErp ==
    last.pass = "generate_auto_mapping" =>
        /\ Len(last.rows) = Len(last.erp_items)
        /\ \A i \in 1..Len(last.rows) :
             LET row  == last.rows[i]
                 code == last.erp_items[i]
                 ids  == {p.id : p \in {q \in Range(last.wc_products) : q.sku = code}}
             IN  /\ Get(row, "erp_item_code") = PyStr(code)
                 /\ IF ids # {}
                    THEN /\ Get(row, "wc_product_id") \in {PyInt(id) : id \in ids}
                         /\ Get(row, "status") = PyStr("matched")
                    ELSE /\ Get(row, "wc_product_id") = PyNone
                         /\ Get(row, "status") = PyStr("missing_wc")

\* rows for an item with a product followed by an item without one
C30_Witness ==
    /\ last.pass = "generate_auto_mapping"
    /\ Len(last.rows) = 2
    /\ Get(last.rows[1], "status") = PyStr("matched")
    /\ Get(last.rows[2], "status") = PyStr("missing_wc")


\* the overrides of a call that decide a row's product: those that name an
\* item code and carry a forced id, and are the last such for their code
DecidingOverrides(l) ==
    {i \in 1..Len(l.overrides) :
        /\ Truthy(Get(l.overrides[i], "erp_item_code"))
        /\ Get(l.overrides[i], "forced_wc_product_id") # PyNone
        /\ \A j \in (i + 1)..Len(l.overrides) :
              Get(l.overrides[j], "erp_item_code") = Get(l.overrides[i], "erp_item_code")
                  => Get(l.overrides[j], "forced_wc_product_id") = PyNone}

\* the codes the overrides of a call name
OverrideCodes(l) ==
    {Get(l.overrides[i], "erp_item_code") : i \in 1..Len(l.overrides)}

\* the row of a code after the call: the one the index by code holds
RowOfCode(rows, code) == rows[Greatest(RowsOfCode(rows, code.v))]

\* C31: after apply_overrides(rows, overrides) the row of every override
\* with a forced id carries that id as its wc_product_id, every row whose
\* code has no override is as it was, and the call writes no file.
C31_OverridesForceTheLink ==
    [][last'.pass = "apply_overrides" =>
         /\ \A i \in DecidingOverrides(last') :
               /\ RowsOfCode(last'.rows, Get(last'.overrides[i], "erp_item_code").v) # {}
               /\ Get(RowOfCode(last'.rows, Get(last'.overrides[i], "erp_item_code")),
                      "wc_product_id")
                    = Get(last'.overrides[i], "forced_wc_product_id")
         /\ \A k \in 1..Len(last'.auto_rows) :
               Get(last'.auto_rows[k], "erp_item_code") \notin OverrideCodes(last')
                   => /\ k <= Len(last'.rows)
                      /\ last'.rows[k] = last'.auto_rows[k]
         /\ UNCHANGED <<mapping_file, backup_file, tmp_file>>]_vars

\* a call that forced a link on a row that had another, left a row without
\* an override alone, and appended a row for a code that had none
C31_Witness ==
    /\ last.pass = "apply_overrides"
    /\ last.auto_rows = <<AutoRow("A", 5), AutoRow("B", 5)>>
    /\ last.overrides = <<OverrideRow("A", 7), OverrideRow("X", 7)>>
    /\ Get(last.rows[1], "wc_product_id") = PyInt(7)
    /\ last.rows[2] = AutoRow("B", 5)
    /\ Len(last.rows) = 3

(***************************************************************************)
(* get_wc_products: the storefront's listing, read page by page            *)
(***************************************************************************)
MaxPerPage == 2
MaxPages == 3

\* the batches wc_get("products", {per_page, page}) may answer with: up to
\* per_page products; which products a page holds is the storefront's choice
PageBatches(per_page) == SeqUpTo({"p", "q"}, per_page)

\* the frame of a call: page = 1, products = [], before the first request
PagesFrame(per_page) ==
    [pass |-> "get_wc_products", pc |-> "request", per_page |-> per_page,
     page |-> 1, products |-> << >>, batch |-> << >>,
     requested |-> << >>, received |-> << >>]

InitPages ==
    /\ now = 0 /\ MigrateIdle /\ PassIdle /\ StoreIdle
    /\ erp = << >> /\ wc = << >> /\ next_id = 0 /\ images_map = << >> /\ seen = {}
    /\ \E per_page \in 1..MaxPerPage : last = PagesFrame(per_page)

\* line 15: batch = await wc_get("products", {"per_page": per_page, "page": page});
\* an HTTP error status or a request error leaves the function
WcGetPage ==
    /\ last.pass = "get_wc_products" /\ last.pc = "request"
    /\ last.page <= MaxPages
    /\ \/ \E batch \in PageBatches(last.per_page) :
            last' = [last EXCEPT !.pc = "answered", !.batch = batch,
                                 !.requested = Append(@, last.page),
                                 !.received = Append(@, batch)]
       \/ last' = [last EXCEPT !.pc = "raised",
                               !.requested = Append(@, last.page)]
    /\ UNCHANGED <<now, migrateVars, storeVars, passVars, erp, wc, next_id, images_map, seen>>

\* the loop body with `if len(batch) < per_page: break` left out
AfterBatchUntilEmpty(l) ==
    IF l.batch = << >> THEN [l EXCEPT !.pc = "returned"]
    ELSE [l EXCEPT !.products = @ \o l.batch, !.page = @ + 1, !.pc = "request"]

\* lines 16-22: an empty batch ends the loop; a batch is appended, and ends
\* the loop when it is shorter than per_page; otherwise the next page
AfterBatch(l) ==
    IF l.batch = << >> THEN [l EXCEPT !.pc = "returned"]
    ELSE IF Len(l.batch) < l.per_page
         THEN [l EXCEPT !.products = @ \o l.batch, !.pc = "returned"]
         ELSE [l EXCEPT !.products = @ \o l.batch, !.page = @ + 1, !.pc = "request"]

GetWcProductsLoop ==
    /\ last.pass = "get_wc_products" /\ last.pc = "answered"
    /\ last' = AfterBatch(last)
    /\ UNCHANGED <<now, migrateVars, storeVars, passVars, erp, wc, next_id, images_map, seen>>

NextPages == WcGetPage \/ GetWcProductsLoop
SpecPages == InitPages /\ [][NextPages]_vars
\* the coroutine runs on once its await is answered
SpecPagesLive == SpecPages /\ WF_vars(GetWcProductsLoop)

RECURSIVE Concat(_)
Concat(batches) ==
    IF batches = << >> THEN << >> ELSE batches[1] \o Concat(Tail(batches))

\* a page that ends the listing: empty, or shorter than per_page
ShortPage(l, batch) == Len(batch) < l.per_page

\* C32: get_wc_products requests pages 1, 2, 3, ... in increasing order,
\* returns the concatenation of the products of the requested pages, stops
\* exactly after the first page that is empty or shorter than per_page, and
\* returns whenever the storefront answers with such a page.
C32_PagesInOrderUntilShort ==
    /\ [](last.pass = "get_wc_products" =>
            /\ \A i \in 1..Len(last.requested) : last.requested[i] = i
            /\ \A i \in 1..(Len(last.received) - 1) : ~ShortPage(last, last.received[i])
            /\ last.pc = "request" =>
                 \A i \in 1..Len(last.received) : ~ShortPage(last, last.received[i])
            /\ last.pc = "returned" =>
                 /\ last.received # << >>
                 /\ ShortPage(last, last.received[Len(last.received)])
                 /\ last.products = Concat(last.received))
    /\ [](last.pc = "answered" /\ ShortPage(last, last.batch) => <>(last.pc = "returned"))

\* a listing of three pages: two full ones and a shorter, non-empty third
C32_Witness ==
    /\ last.pass = "get_wc_products" /\ last.pc = "returned"
    /\ last.requested = <<1, 2, 3>>
    /\ last.per_page = 2
    /\ Len(last.products) = 5

(***************************************************************************)
(* empty_trash and wc_empty_trash: the trashed products, purged by page    *)
(***************************************************************************)
MaxTrashed == 3

\* a product in trash status
TrashedProduct(id) == Product(id, "", "trashed", "", << >>)

\* wc_get("products", {"status": "trash", "per_page", "page"}): the page of
\* the products that are in the trash when the request is answered
TrashPage(trashed, per_page, page) ==
    SubSeq(trashed, (page - 1) * per_page + 1,
           IF page * per_page < Len(trashed) THEN page * per_page ELSE Len(trashed))

\* removed = [], errors = {}, page = 1; the route asks for 100 a page, the
\* helper for per_page
TrashFrame(entry, per_page) ==
    [pass |-> entry, pc |-> "fetch", per_page |-> per_page, page |-> 1,
     todo |-> << >>, removed |-> << >>, errors |-> {}, trashed |-> wc]

InitTrash ==
    /\ now = 0 /\ MigrateIdle /\ PassIdle /\ StoreIdle
    /\ erp = << >> /\ next_id = 0 /\ images_map = << >> /\ seen = {}
    /\ \E n \in 0..MaxTrashed : wc = [i \in 1..n |-> TrashedProduct(i)]
    /\ \E per_page \in 1..MaxPerPage :
         \/ last = TrashFrame("wc_empty_trash", per_page)
         \/ per_page = MaxPerPage /\ last = TrashFrame("empty_trash", per_page)

\* the request of a page: an empty page ends the loop, an error status leaves
\* the function
FetchTrashed ==
    /\ last.pass \in {"empty_trash", "wc_empty_trash"} /\ last.pc = "fetch"
    /\ \/ \E trashed \in {TrashPage(wc, last.per_page, last.page)} :
            last' = IF trashed = << >> THEN [last EXCEPT !.pc = "returned"]
                    ELSE [last EXCEPT !.pc = "delete", !.todo = trashed]
       \/ last' = [last EXCEPT !.pc = "raised"]
    /\ UNCHANGED <<now, migrateVars, storeVars, passVars, erp, wc, next_id, images_map, seen>>

\* the storefront without the product of that id
WithoutProduct(wc_products, id) ==
    LET Keep(p) == p.id # id IN SelectSeq(wc_products, Keep)

\* wc_delete(f"products/{id}") of the next product of the page: deleted for
\* good and listed as removed, or refused and recorded
DeleteTrashed ==
    /\ last.pass \in {"empty_trash", "wc_empty_trash"} /\ last.pc = "delete"
    /\ last.todo # << >>
    /\ \E id \in {Head(last.todo).id} :
         \/ /\ wc' = WithoutProduct(wc, id)
            /\ last' = [last EXCEPT !.todo = Tail(@), !.removed = Append(@, id)]
         \/ /\ wc' = wc
            /\ last' = [last EXCEPT !.todo = Tail(@), !.errors = @ \cup {id}]
    /\ UNCHANGED <<now, migrateVars, storeVars, passVars, erp, next_id, images_map, seen>>

\* page += 1 after the products of a page
NextTrashPage ==
    /\ last.pass \in {"empty_trash", "wc_empty_trash"} /\ last.pc = "delete"
    /\ last.todo = << >>
    /\ last' = [last EXCEPT !.pc = "fetch", !.page = @ + 1]
    /\ UNCHANGED <<now, migrateVars, storeVars, passVars, erp, wc, next_id, images_map, seen>>

NextTrash == FetchTrashed \/ DeleteTrashed \/ NextTrashPage
SpecTrash == InitTrash /\ [][NextTrash]_vars

\* C33: when empty_trash (or wc_empty_trash) returns with no delete error,
\* no product that was in the trash when it was called is on the storefront.
C33_TrashIsEmptied ==
    (last.pc = "returned" /\ last.errors = {}) =>
        \A i \in 1..Len(last.trashed) : ProductsById(wc, last.trashed[i].id) = {}

\* C34: wc_regenerate_lookup_table returns True or False for every outcome
\* of its two HTTP attempts, and a regeneration that fails inside the
\* recovery sequence of bulk_create does not end the pass with an exception.
C34_RegenerationNeverRaises ==
    /\ last.pass = "wc_regenerate_lookup_table" => last.result \in {"True", "False"}
    /\ (last.pass = "bulk_create" /\ last.remote.create = "dup"
          /\ \E c \in last.remote.codes : <<"regenerate", c>> \in Range(last.calls)
          /\ last.remote.images = "ok")
         => last.raised \in {"", MessageOf(last.remote.save)}

\* C35: when the fetch of the ERP item list fails, bulk_delete deletes no
\* storefront product and the preview lists none for deletion.
C35_NoDeleteWithoutErpList ==
    /\ (last.pass = "bulk_delete" /\ last.remote.erp_fetch = "error") =>
           /\ wc = last.wc_before
           /\ last.done = << >>
    /\ (last.pass = "preview" /\ last.erp_fetch = "error") => last.delete = << >>

\* C36: a bulk_create or bulk_update pass in which a call made for one item
\* code failed goes on to its final save: when the save itself succeeds the
\* pass returns its result and no error leaves the handler (the regeneration
\* that raises is C34's case and is left aside here).
C36_ItemFailuresStayLocal ==
    (last.pass \in {"bulk_create", "bulk_update"} /\ last.remote.save = "ok"
       /\ ~last.remote.regenerate_raises) =>
        /\ last.raised = ""
        /\ last.response.status = 200

(***************************************************************************)
(* bulk_create run again and again, one pass after the other; a pass may   *)
(* end with an error or be killed after its creates and before its save    *)
(***************************************************************************)
MaxRepeats == 2

\* a bulk_create pass after the ones before it; a save that fails leaves
\* what a pass killed before its save leaves: the products, not the rows
RepeatedCreatePass ==
    /\ next_id <= MaxMediaId + MaxRepeats /\ PassesOf(last) < MaxRepeats
    /\ \E remote \in CreateRemotes :
       \E r \in {bulk_create(mapping_file, wc, erp, next_id, now, remote)} :
         FaultApplied("bulk_create", r, remote)

NextRepeat == RepeatedCreatePass
SpecRepeat == InitFaults /\ [][NextRepeat]_vars

\* C37: over consecutive bulk_create passes, among them passes that ended
\* after a create and before the save of the document, no item code has two
\* products on the storefront, and no pass creates a product for a code
\* that has a product in the pass's storefront snapshot.
C37_NoDuplicateProducts ==
    /\ \A c \in Codes \cup {"X"} : Cardinality(ProductsBySku(wc, c)) <= 1
    /\ last.pass = "bulk_create" =>
         \A c \in Codes :
            ProductsBySku(last.wc_before, c) # {} =>
               /\ c \notin Range(last.done)
               /\ <<"create", c>> \notin Range(last.calls)
               /\ ProductsBySku(wc, c) = ProductsBySku(last.wc_before, c)
               /\ \A i \in ProductsBySku(wc, c) : wc[i] = last.wc_before[i]

\* a second pass over a storefront that holds the product an earlier pass
\* created for A while the document still has A unlinked: nothing is created
C37_Witness ==
    /\ last.pass = "bulk_create" /\ last.passes = 2
    /\ \E i \in ProductsBySku(last.wc_before, "A") : last.wc_before[i].id >= 10
    /\ \E k \in RowsOfCode(last.rows_before, "A") :
          Get(last.rows_before[k], "wc_product_id") = PyNone
    /\ last.done = << >>
    /\ Cardinality(ProductsBySku(wc, "A")) = 1

\* the invocations of run_full_sync that hold the lock: inside sync_products
HoldingLock == {t \in Tasks : task[t].entry = "run_full_sync"
                              /\ task[t].pc \in {"sp_fetch", "sp_load"}}

\* C38: the lock is held only while a run_full_sync invocation that took it
\* is inside sync_products; once that invocation has finished, by a result
\* or by an exception, the lock is free, so the lock is always released
\* again and a later invocation is not answered "locked" forever.
C38_LockReleasedWhenSyncEnds ==
    /\ [](sync_lock <=> HoldingLock # {})
    /\ [](\A t \in Tasks :
            (task[t].entry = "run_full_sync" /\ task[t].pc = "done"
               /\ task[t].result # "locked") => HoldingLock \subseteq Tasks \ {t})
    /\ (sync_lock ~> ~sync_lock)

\* an invocation ended by the exception of sync_products, and a later one
\* that took the lock after it
C38_Witness ==
    \E t, u \in Tasks :
        /\ task[t].entry = "run_full_sync" /\ task[t].pc = "done"
        /\ task[t].result = "raised"
        /\ task[u].entry = "run_full_sync" /\ task[u].pc = "sp_fetch"
        /\ sync_lock

(***************************************************************************)
(* A bulk pass and PUT /api/mapping on one document: the pass loads the    *)
(* document in get_fresh_data, awaits the storefront for each row and      *)
(* saves at its end; save_mapping_handler has no await and runs between    *)
(* two awaits of the pass                                                  *)
(***************************************************************************)
MaxEdits == 1

\* the bodies of PUT /api/mapping: overrides alone, rows alone, both
PutPayloads ==
    {[overrides |-> <<OverrideRow("A", 7)>>],
     [auto |-> <<AutoRow("A", 0), AutoRow("B", 0)>>],
     [auto |-> <<AutoRow("B", 5)>>, overrides |-> <<OverrideRow("B", 7)>>]}

\* load_mapping_raw(MAPPING_JSON_FILE) or {"auto": [], "overrides": [], "images": {}}
CurrentMapping(file, clock) == LoadedMapping(file, << >>, << >>, clock)

\* save_mapping_handler, lines 121-130: the payload's rows and overrides,
\* each defaulting to the document's, with the document's images
save_mapping_handler(file, payload, clock) ==
    LET Saved(current) ==
            FileOf(json_dump(SavePayload(
                IF "auto" \in DOMAIN payload THEN payload.auto ELSE current.auto,
                IF "overrides" \in DOMAIN payload THEN payload.overrides
                ELSE current.overrides,
                current.images, clock)))
    IN  Saved(CurrentMapping(file, clock))

\* the bulk handler whose pass this is, up to its final save
EditPass(name, file) ==
    IF name = "bulk_create" THEN bulk_create(file, wc, erp, next_id, now, RemoteOk)
    ELSE IF name = "bulk_update" THEN bulk_update(file, wc, erp, next_id, now, RemoteOk)
    ELSE bulk_delete(file, wc, erp, next_id, now, {}, "ok")

\* a bulk handler from get_fresh_data through its loop: the document is read
\* once, the storefront is acted on, the rows to save are held in memory
EditPassLoads ==
    /\ next_id <= MaxMediaId /\ PassesOf(last) < MaxPasses
    /\ "pc" \in DOMAIN last => last.pc = "saved"
    /\ \E name \in {"bulk_create", "bulk_update", "bulk_delete"} :
       \E r \in {EditPass(name, mapping_file)} :
           /\ mapping_file' = r.fresh.file
           /\ wc' = r.st.wc
           /\ next_id' = r.st.next_id
           /\ last' = [pass |-> name, passes |-> PassesOf(last) + 1, pc |-> "loop",
                       pending |-> r.file, puts |-> << >>]
    /\ UNCHANGED <<now, erp, images_map, seen, backup_file, tmp_file, pc, op, ret,
                   migrateVars, passVars>>

\* PUT /api/mapping while the pass awaits the storefront
SaveMappingHandler ==
    /\ "pc" \in DOMAIN last /\ last.pc = "loop"
    /\ Len(last.puts) < MaxEdits
    /\ \E payload \in PutPayloads :
           /\ mapping_file' = save_mapping_handler(mapping_file, payload, now)
           /\ last' = [last EXCEPT !.puts = Append(@, payload)]
    /\ UNCHANGED <<now, erp, wc, next_id, images_map, seen, backup_file, tmp_file,
                   pc, op, ret, migrateVars, passVars>>

\* the save_mapping that ends the pass (lines 243, 295, 322): the rows,
\* overrides and images the pass holds
EditPassSaves ==
    /\ "pc" \in DOMAIN last /\ last.pc = "loop"
    /\ mapping_file' = last.pending
    /\ last' = [last EXCEPT !.pc = "saved"]
    /\ UNCHANGED <<now, erp, wc, next_id, images_map, seen, backup_file, tmp_file,
                   pc, op, ret, migrateVars, passVars>>

NextEdit == EditPassLoads \/ SaveMappingHandler \/ EditPassSaves
SpecEdit == InitFaults /\ [][NextEdit]_vars

\* the document holds what the body of a PUT asked to save: its overrides,
\* and a row for each code of its rows
HoldsPayload(doc, payload) ==
    /\ "overrides" \in DOMAIN payload => doc.overrides = payload.overrides
    /\ "auto" \in DOMAIN payload =>
          \A i \in 1..Len(payload.auto) : RowsOfCode(doc.auto, CodeOf(payload.auto[i])) # {}

\* C39: what PUT /api/mapping saved while a bulk pass was in progress is
\* in the persisted document after the final save of that pass.
C39_NoLostUpdate ==
    ("pc" \in DOMAIN last /\ last.pc = "saved" /\ last.puts # << >>) =>
        HoldsPayload(CurrentMapping(mapping_file, now), last.puts[Len(last.puts)])

\* C40: a call of sync_item_images whose fetch of the item's images from
\* the ERP failed leaves the item's entries in the image mapping as they were.
C40_FailedFetchKeepsMapping ==
    (last.pass = "sync_item_images" /\ last.fetch = "error") =>
        get_images_for_item(images_map, "A") = last.map_before

====
